---- MODULE Spec2Model ----
(***************************************************************************)
(* Token metadata normalisation and classification (utils/metadata.ts,     *)
(* utils/tokenProcessing.ts, utils/tokenFiltering.ts).                     *)
(*                                                                         *)
(* Text is a sequence of atoms.  The structural characters of JSON, the    *)
(* blank, the newline and '#' are atoms of their own; every other atom is  *)
(* a run of letters or digits that the code never splits ("name", "93").   *)
(* JavaScript values are tagged records, objects are sequences of          *)
(* key/value pairs kept in JavaScript's property order.                    *)
(***************************************************************************)
EXTENDS Integers, Sequences, FiniteSets, TLC

\* ------------------------------------------------------------------------
\* Bounds of the model
\* ------------------------------------------------------------------------
MaxFields == 2
MaxAttrs == 2
MaxTokens == 2
MaxCriteria == 2
MaxRuns == 2
MaxConnects == 2

\* the number of completed runs of the pipeline on one record (RepeatSpec)
VARIABLE runs

\* const x = v; F(x): v is evaluated once and F reads the value
Bind(v, F(_)) == CHOOSE r \in {F(x) : x \in {v}} : TRUE

\* ------------------------------------------------------------------------
\* JavaScript values
\* ------------------------------------------------------------------------
Undef == [t |-> "undefined"]
Null == [t |-> "null"]
Throw == [t |-> "throw"]
Bool(b) == [t |-> "boolean", b |-> b]
Num(d) == [t |-> "number", d |-> d]
Str(s) == [t |-> "string", s |-> s]
Arr(a) == [t |-> "array", a |-> a]
Obj(o) == [t |-> "object", o |-> o]
S(w) == Str(<<w>>)
EmptyStr == Str(<<>>)
KV(k, v) == [k |-> k, v |-> v]

IsStr(v) == v.t = "string"
IsNullish(v) == v.t \in {"undefined", "null"}
\* typeof v === 'object'
TypeofObject(v) == v.t \in {"object", "array", "null"}

\* ToBoolean
Truthy(v) ==
  CASE v.t = "undefined" -> FALSE
    [] v.t = "null" -> FALSE
    [] v.t = "boolean" -> v.b
    [] v.t = "number" -> v.d # "0"
    [] v.t = "string" -> v.s # <<>>
    [] OTHER -> TRUE

\* a || b
Or(a, b) == IF Truthy(a) THEN a ELSE b

\* Decimal digits runs that occur in the model, with their values
NumAtoms == {"0", "1", "2", "5", "93", "721"}
NumVal(d) ==
  CASE d = "0" -> 0 [] d = "1" -> 1 [] d = "2" -> 2 [] d = "5" -> 5
    [] d = "93" -> 93 [] d = "721" -> 721 [] OTHER -> 0
IdxAtom(i) == CASE i = 0 -> "0" [] i = 1 -> "1" [] i = 2 -> "2" [] OTHER -> "5"

RECURSIVE JoinStr(_, _)
\* String(v)
RECURSIVE ToStr(_)
ToStr(v) ==
  CASE v.t = "string" -> v.s
    [] v.t = "number" -> <<v.d>>
    [] v.t = "boolean" -> IF v.b THEN <<"true">> ELSE <<"false">>
    [] v.t = "null" -> <<"null">>
    [] v.t = "undefined" -> <<"undefined">>
    [] v.t = "array" -> JoinStr(v.a, 1)
    [] OTHER -> <<"[object Object]">>
\* Array.prototype.join(','), from element i on
JoinStr(a, i) ==
  IF i > Len(a) THEN <<>>
  ELSE (IF IsNullish(a[i]) THEN <<>> ELSE ToStr(a[i]))
       \o (IF i < Len(a) THEN <<",">> ELSE <<>>)
       \o JoinStr(a, i + 1)

\* ------------------------------------------------------------------------
\* Objects: property order is integer-like keys ascending, then the others
\* in insertion order
\* ------------------------------------------------------------------------
IsIndexKey(k) == Len(k) = 1 /\ k[1] \in NumAtoms
KeyBefore(k1, k2) ==
  IsIndexKey(k1) /\ (~IsIndexKey(k2) \/ NumVal(k1[1]) < NumVal(k2[1]))
HasKey(o, k) == \E i \in 1..Len(o) : o[i].k = k
KeyPos(o, k) == CHOOSE i \in 1..Len(o) : o[i].k = k
\* o[k] = v on the pair list o
ObjSet(o, k, v) ==
  IF HasKey(o, k)
  THEN [o EXCEPT ![KeyPos(o, k)] = KV(k, v)]
  ELSE LET before == {i \in 1..Len(o) : ~KeyBefore(k, o[i].k)}
           n == IF IsIndexKey(k) THEN Cardinality(before) ELSE Len(o)
       IN SubSeq(o, 1, n) \o <<KV(k, v)>> \o SubSeq(o, n + 1, Len(o))
RECURSIVE ObjFrom(_)
\* the object a literal with these members, in this order, evaluates to
ObjFrom(ms) ==
  IF ms = <<>> THEN <<>>
  ELSE Bind(ObjFrom(SubSeq(ms, 1, Len(ms) - 1)), LAMBDA o :
         ObjSet(o, ms[Len(ms)].k, ms[Len(ms)].v))
O(ms) == Obj(ObjFrom(ms))

\* Object.entries(v) / Object.keys(v) for a non-nullish v
Entries(v) ==
  CASE v.t = "object" -> v.o
    [] v.t = "array" -> [i \in 1..Len(v.a) |-> KV(<<IdxAtom(i - 1)>>, v.a[i])]
    [] v.t = "string" -> [i \in 1..Len(v.s) |-> KV(<<IdxAtom(i - 1)>>, Str(<<v.s[i]>>))]
    [] OTHER -> <<>>
\* v[k] for a non-nullish v (own properties only)
Get(v, k) ==
  LET es == Entries(v)
  IN IF HasKey(es, k) THEN es[KeyPos(es, k)].v ELSE Undef
G(v, w) == Get(v, <<w>>)

\* ------------------------------------------------------------------------
\* Strings
\* ------------------------------------------------------------------------
IsWs(c) == c \in {" ", "\n"}
\* String.prototype.trim
Trim(s) ==
  LET ix == {i \in 1..Len(s) : ~IsWs(s[i])}
  IN IF ix = {} THEN <<>>
     ELSE SubSeq(s, CHOOSE i \in ix : \A j \in ix : i <= j,
                    CHOOSE i \in ix : \A j \in ix : i >= j)
StartsWith(s, p) == Len(s) >= Len(p) /\ SubSeq(s, 1, Len(p)) = p
\* s.includes(c) for a one-character c
Includes(s, c) == \E i \in 1..Len(s) : s[i] = c
\* s.split(c)[0]
SplitFirst(s, c) ==
  IF Includes(s, c)
  THEN SubSeq(s, 1, (CHOOSE i \in 1..Len(s) :
                       s[i] = c /\ \A j \in 1..(i - 1) : s[j] # c) - 1)
  ELSE s
RECURSIVE Split(_, _)
\* s.split(c)
Split(s, c) ==
  IF ~Includes(s, c) THEN <<s>>
  ELSE LET h == SplitFirst(s, c)
       IN <<h>> \o Split(SubSeq(s, Len(h) + 2, Len(s)), c)
LowerAtom(c) ==
  CASE c = "Series" -> "series" [] c = "Seed" -> "seed"
    [] c = "Rarity" -> "rarity" [] c = "Epic" -> "epic"
    [] c = "X" -> "x" [] c = "Y" -> "y" [] c = "Bob" -> "bob"
    [] c = "Tok" -> "tok" [] c = "C1" -> "c1" [] c = "Plain" -> "plain"
    [] c = "Color" -> "color" [] c = "Red" -> "red"
    [] c = "Other" -> "other" [] c = "N" -> "n" [] c = "Alice" -> "alice"
    [] c = "Background" -> "background" [] c = "Blue" -> "blue"
    [] c = "Token ID" -> "token id" [] c = "Depth" -> "depth" [] c = "S1" -> "s1"
    [] c = "Cybercitizen" -> "cybercitizen" [] c = "Punk" -> "punk"
    [] c = "Coll" -> "coll" [] c = "Mood" -> "mood" [] c = "MC" -> "mc"
    [] c = "M" -> "m" [] c = "Six" -> "six" [] c = "Seven" -> "seven"
    [] OTHER -> c
\* String.prototype.toLowerCase
ToLowerCase(s) == [i \in 1..Len(s) |-> LowerAtom(s[i])]

\* ------------------------------------------------------------------------
\* JSON.parse and JSON.stringify
\* ------------------------------------------------------------------------
Q == "\""
Fail == [ok |-> FALSE, v |-> Undef, p |-> 0]
Ok(v, p) == [ok |-> TRUE, v |-> v, p |-> p]
RECURSIVE SkipWs(_, _)
SkipWs(s, i) == IF i <= Len(s) /\ IsWs(s[i]) THEN SkipWs(s, i + 1) ELSE i
\* a string literal that opens at s[i]
ParseString(s, i) ==
  IF i > Len(s) \/ s[i] # Q THEN Fail
  ELSE Bind({j \in (i + 1)..Len(s) : s[j] = Q}, LAMBDA cl :
         IF cl = {} THEN Fail
         ELSE Bind(CHOOSE x \in cl : \A y \in cl : x <= y, LAMBDA j :
                IF Includes(SubSeq(s, i + 1, j - 1), "\n") THEN Fail
                ELSE Ok(Str(SubSeq(s, i + 1, j - 1)), j + 1)))
RECURSIVE ParseValue(_, _)
RECURSIVE ParseMembers(_, _, _)
RECURSIVE ParseElems(_, _, _)
\* members of an object, the next one starting at or after s[i]
ParseMembers(s, i, acc) ==
  Bind(ParseString(s, SkipWs(s, i)), LAMBDA k :
    IF ~k.ok THEN Fail
    ELSE Bind(SkipWs(s, k.p), LAMBDA c :
      IF c > Len(s) \/ s[c] # ":" THEN Fail
      ELSE Bind(ParseValue(s, c + 1), LAMBDA v :
        IF ~v.ok \/ v.p > Len(s) THEN Fail
        ELSE Bind(ObjSet(acc, k.v.s, v.v), LAMBDA o :
          IF s[v.p] = "," THEN ParseMembers(s, v.p + 1, o)
          ELSE IF s[v.p] = "}" THEN Ok(Obj(o), v.p + 1)
          ELSE Fail))))
\* elements of an array, the next one starting at or after s[i]
ParseElems(s, i, acc) ==
  Bind(ParseValue(s, i), LAMBDA v :
    IF ~v.ok \/ v.p > Len(s) THEN Fail
    ELSE Bind(Append(acc, v.v), LAMBDA a :
      IF s[v.p] = "," THEN ParseElems(s, v.p + 1, a)
      ELSE IF s[v.p] = "]" THEN Ok(Arr(a), v.p + 1)
      ELSE Fail))
\* one value with the blanks around it; p is the first position after them
ParseValue(s, i) ==
  Bind(SkipWs(s, i), LAMBDA j :
    Bind(IF j > Len(s) THEN Fail
         ELSE IF s[j] = "{"
           THEN Bind(SkipWs(s, j + 1), LAMBDA n :
                  IF n <= Len(s) /\ s[n] = "}" THEN Ok(Obj(<<>>), n + 1)
                  ELSE ParseMembers(s, j + 1, <<>>))
         ELSE IF s[j] = "["
           THEN Bind(SkipWs(s, j + 1), LAMBDA n :
                  IF n <= Len(s) /\ s[n] = "]" THEN Ok(Arr(<<>>), n + 1)
                  ELSE ParseElems(s, j + 1, <<>>))
         ELSE IF s[j] = Q THEN ParseString(s, j)
         ELSE IF s[j] \in NumAtoms THEN Ok(Num(s[j]), j + 1)
         ELSE IF s[j] = "true" THEN Ok(Bool(TRUE), j + 1)
         ELSE IF s[j] = "false" THEN Ok(Bool(FALSE), j + 1)
         ELSE IF s[j] = "null" THEN Ok(Null, j + 1)
         ELSE Fail,
         LAMBDA r : IF r.ok THEN Ok(r.v, SkipWs(s, r.p)) ELSE Fail))
\* JSON.parse(s): the value, or Throw for a SyntaxError
JSONparse(s) ==
  Bind(ParseValue(s, 1), LAMBDA r :
    IF r.ok /\ r.p = Len(s) + 1 THEN r.v ELSE Throw)

RECURSIVE JSONstringify(_)
RECURSIVE StringifyMembers(_, _, _)
RECURSIVE StringifyElems(_, _)
\* JSON.stringify(v) for a v that holds no undefined at the top
JSONstringify(v) ==
  CASE v.t = "string" -> <<Q>> \o v.s \o <<Q>>
    [] v.t = "number" -> <<v.d>>
    [] v.t = "boolean" -> IF v.b THEN <<"true">> ELSE <<"false">>
    [] v.t = "array" -> <<"[">> \o StringifyElems(v.a, 1) \o <<"]">>
    [] v.t = "object" -> <<"{">> \o StringifyMembers(v.o, 1, TRUE) \o <<"}">>
    [] OTHER -> <<"null">>
StringifyMembers(o, i, first) ==
  IF i > Len(o) THEN <<>>
  ELSE IF o[i].v.t = "undefined" THEN StringifyMembers(o, i + 1, first)
  ELSE (IF first THEN <<>> ELSE <<",">>)
       \o <<Q>> \o o[i].k \o <<Q, ":">> \o JSONstringify(o[i].v)
       \o StringifyMembers(o, i + 1, FALSE)
StringifyElems(a, i) ==
  IF i > Len(a) THEN <<>>
  ELSE JSONstringify(a[i]) \o (IF i < Len(a) THEN <<",">> ELSE <<>>)
       \o StringifyElems(a, i + 1)

\* ------------------------------------------------------------------------
\* utils/metadata.ts
\* ------------------------------------------------------------------------
\* TokenMetadata; an absent field is Undef
TokenMetadata(type, data, name, description, image, traits, collection, creator, standard, decimals) ==
  [t |-> "TokenMetadata", type |-> type, data |-> data, name |-> name,
   description |-> description, image |-> image, traits |-> traits,
   collection |-> collection, creator |-> creator, standard |-> standard,
   decimals |-> decimals]
\* MetadataOptions
MetadataOptions == [includeFullData : BOOLEAN, extractTraits : BOOLEAN]

RECURSIVE EntriesInto(_, _, _)
\* Object.entries(x).forEach(([key, value]) => traits[key] = String(value))
EntriesInto(es, i, traits) ==
  IF i > Len(es) THEN traits
  ELSE Bind(ObjSet(traits, es[i].k, Str(ToStr(es[i].v))), LAMBDA t1 :
         EntriesInto(es, i + 1, t1))
RECURSIVE AttributesInto(_, _, _, _)
\* attributes.forEach(attr => { if (attr.trait_type && <value test>)
\*   traits[attr.trait_type] = String(attr.value) }); the traits as an
\* object, or Throw on a null entry.
\* The value test is attr.value (truthyValue) or attr.value !== undefined.
AttributesInto(attrs, i, traits, truthyValue) ==
  IF i > Len(attrs) THEN Obj(traits)
  ELSE IF IsNullish(attrs[i]) THEN Throw
  ELSE LET tt == G(attrs[i], "trait_type")
           val == G(attrs[i], "value")
           take == Truthy(tt) /\ (IF truthyValue THEN Truthy(val) ELSE val.t # "undefined")
       IN Bind(IF take THEN ObjSet(traits, ToStr(tt), Str(ToStr(val))) ELSE traits,
               LAMBDA t1 : AttributesInto(attrs, i + 1, t1, truthyValue))
\* Object.keys(traits).length > 0 ? traits : undefined
TraitsOrUndef(traits) == IF Len(traits) > 0 THEN Obj(traits) ELSE Undef

RECURSIVE PropertiesInto(_, _, _)
PropertiesInto(es, i, traits) ==
  IF i > Len(es) THEN traits
  ELSE LET value == es[i].v
           t1 == IF value.t \in {"string", "number", "boolean"}
                 THEN ObjSet(traits, es[i].k, Str(ToStr(value)))
                 ELSE IF Truthy(value) /\ TypeofObject(value) /\ G(value, "value").t # "undefined"
                 THEN ObjSet(traits, es[i].k, Str(ToStr(G(value, "value"))))
                 ELSE traits
       IN Bind(t1, LAMBDA t2 : PropertiesInto(es, i + 1, t2))

\* extractTraits that digs into properties whatever the flag
extractTraitsAlwaysProperties(data, extractFromProperties) ==
  Bind(IF Truthy(G(data, "traits")) /\ TypeofObject(G(data, "traits"))
       THEN EntriesInto(Entries(G(data, "traits")), 1, <<>>)
       ELSE <<>>, LAMBDA t0 :
  Bind(IF G(data, "attributes").t = "array"
       THEN AttributesInto(G(data, "attributes").a, 1, t0, FALSE)
       ELSE Obj(t0), LAMBDA t1 :
    IF t1.t = "throw" THEN Throw
    ELSE LET props == G(data, "properties")
         IN Bind(IF Truthy(props) /\ TypeofObject(props)
                 THEN PropertiesInto(Entries(props), 1, t1.o)
                 ELSE t1.o, LAMBDA t2 : TraitsOrUndef(t2))))
\* lines 353-384
extractTraits(data, extractFromProperties) ==
  Bind(IF Truthy(G(data, "traits")) /\ TypeofObject(G(data, "traits"))
       THEN EntriesInto(Entries(G(data, "traits")), 1, <<>>)
       ELSE <<>>, LAMBDA t0 :
  Bind(IF G(data, "attributes").t = "array"
       THEN AttributesInto(G(data, "attributes").a, 1, t0, FALSE)
       ELSE Obj(t0), LAMBDA t1 :
    IF t1.t = "throw" THEN Throw
    ELSE LET props == G(data, "properties")
         IN Bind(IF extractFromProperties /\ Truthy(props) /\ TypeofObject(props)
                 THEN PropertiesInto(Entries(props), 1, t1.o)
                 ELSE t1.o, LAMBDA t2 : TraitsOrUndef(t2))))

RECURSIVE SomeAttr(_, _)
\* attributes.some(attr => attr.trait_type && attr.value)
SomeAttr(attrs, i) ==
  IF i > Len(attrs) THEN Bool(FALSE)
  ELSE IF IsNullish(attrs[i]) THEN Throw
  ELSE IF Truthy(G(attrs[i], "trait_type")) /\ Truthy(G(attrs[i], "value")) THEN Bool(TRUE)
  ELSE SomeAttr(attrs, i + 1)

detectMetadataStandard(data) ==
  IF Truthy(G(data, "721")) THEN S("721")
  ELSE IF Truthy(G(data, "ergo")) THEN S("ergo")
  ELSE IF Truthy(G(data, "eip")) THEN Str(<<"ergo-">> \o ToStr(G(data, "eip")))
  ELSE IF Truthy(G(data, "title")) /\ Truthy(G(data, "originNetwork"))
          /\ Truthy(G(data, "originToken")) THEN S("rosenBridge")
  ELSE IF G(data, "attributes").t = "array"
  THEN Bind(SomeAttr(G(data, "attributes").a, 1), LAMBDA some :
         IF some.t = "throw" THEN Throw
         ELSE IF some.b THEN S("opensea-compatible") ELSE Undef)
  ELSE Undef

\* parseRosenBridgeMetadata without lines 301-303: no trait for isNativeToken
parseRosenBridgeNoNativeTrait(data) ==
  LET t0 == IF Truthy(G(data, "originNetwork"))
            THEN ObjSet(<<>>, <<"Origin Network">>, G(data, "originNetwork")) ELSE <<>>
      t1 == IF Truthy(G(data, "originToken"))
            THEN ObjSet(t0, <<"Origin Token">>, G(data, "originToken")) ELSE t0
      rest == SelectSeq(Entries(data), LAMBDA e :
                e.k \notin {<<"title">>, <<"originNetwork">>, <<"originToken">>, <<"isNativeToken">>})
  IN Bind(EntriesInto(rest, 1, t1), LAMBDA t3 :
       TokenMetadata("rosenBridge", data,
         Or(G(data, "title"), S("Wrapped Token")),
         Str(ToStr(G(data, "title")) \o <<" - Wrapped from ">>
             \o ToStr(G(data, "originNetwork"))),
         Undef, TraitsOrUndef(t3), S("Rosen Bridge Wrapped Tokens"), Undef,
         S("rosenBridge"), Undef))
\* lines 289-321
parseRosenBridgeMetadata(data) ==
  LET t0 == IF Truthy(G(data, "originNetwork"))
            THEN ObjSet(<<>>, <<"Origin Network">>, G(data, "originNetwork")) ELSE <<>>
      t1 == IF Truthy(G(data, "originToken"))
            THEN ObjSet(t0, <<"Origin Token">>, G(data, "originToken")) ELSE t0
      t2 == IF G(data, "isNativeToken").t # "undefined"
            THEN ObjSet(t1, <<"Is Native Token">>,
                        IF Truthy(G(data, "isNativeToken")) THEN S("Yes") ELSE S("No"))
            ELSE t1
      rest == SelectSeq(Entries(data), LAMBDA e :
                e.k \notin {<<"title">>, <<"originNetwork">>, <<"originToken">>, <<"isNativeToken">>})
  IN Bind(EntriesInto(rest, 1, t2), LAMBDA t3 :
       TokenMetadata("rosenBridge", data,
         Or(G(data, "title"), S("Wrapped Token")),
         Str(ToStr(G(data, "title")) \o <<" - Wrapped from ">>
             \o ToStr(G(data, "originNetwork"))),
         Undef, TraitsOrUndef(t3), S("Rosen Bridge Wrapped Tokens"), Undef,
         S("rosenBridge"), Undef))

parseErgoTokenMetadata(data) ==
  Bind(IF G(data, "attributes").t = "array"
       THEN AttributesInto(G(data, "attributes").a, 1, <<>>, TRUE)
       ELSE Obj(<<>>), LAMBDA traits :
  LET name == G(data, "name")
      \* data.name.includes('#'): a string or an array has includes, an
      \* array has no split, any other value has neither
      derive == ~Truthy(G(data, "collection")) /\ Truthy(name)
      collection ==
        IF ~derive THEN G(data, "collection")
        ELSE IF name.t = "string"
        THEN (IF Includes(name.s, "#") THEN Str(Trim(SplitFirst(name.s, "#")))
              ELSE G(data, "collection"))
        ELSE IF name.t = "array"
        THEN (IF \E i \in 1..Len(name.a) : name.a[i] = S("#") THEN Throw
              ELSE G(data, "collection"))
        ELSE Throw
  IN IF traits.t = "throw" \/ collection.t = "throw" THEN Throw
     ELSE TokenMetadata("ergo", data,
            Or(name, S("Unknown Token")),
            Or(G(data, "description"), EmptyStr),
            Or(G(data, "imageUrl"), Or(G(data, "image"), G(data, "image_url"))),
            TraitsOrUndef(traits.o), collection,
            Or(G(data, "creator"), Or(G(data, "artist"), G(data, "minter"))),
            S("ergo"), Or(G(data, "decimals"), Num("0"))))

Prefix721 == <<"{", Q, "721", Q, ":">>

\* position among the entries of policyData of the first one whose value is
\* a string equal to policyId, 0 when find() gives undefined
PossibleCollectionEntry(policyData, policyId) ==
  LET es == Entries(policyData)
      hit == {i \in 1..Len(es) : IsStr(es[i].v) /\ es[i].v.s = policyId}
  IN IF hit = {} THEN 0
     ELSE CHOOSE i \in hit : \A j \in hit : i <= j
\* position among the entries of nestedData of the first one whose value is
\* a string other than tokenId, 0 when find() gives undefined
FirstStringField(nestedData, tokenId) ==
  LET es == Entries(nestedData)
      hit == {i \in 1..Len(es) : IsStr(es[i].v) /\ es[i].v.s # tokenId}
  IN IF hit = {} THEN 0
     ELSE CHOOSE i \in hit : \A j \in hit : i <= j

\* the four variables lines 137-140 declare
Resolved(td, id, coll, nm) ==
  [t |-> "resolved", tokenData |-> td, tokenId |-> id, collectionName |-> coll,
   tokenName |-> nm]
\* Resolve721 with the name/description test of line 166 ahead of the
\* value-equals-id test of line 150
Resolve721NameFirst(policyData, policyId) ==
  IF ~TypeofObject(policyData) THEN Resolved(Obj(<<>>), <<>>, <<>>, EmptyStr)
  ELSE IF policyData.t = "null" THEN Throw
  ELSE IF Truthy(G(policyData, "name")) \/ Truthy(G(policyData, "description"))
  THEN Resolved(policyData, <<>>, policyId, Or(G(policyData, "name"), Str(policyId)))
  ELSE IF PossibleCollectionEntry(policyData, policyId) # 0
  THEN Resolved(policyData, policyId,
                Entries(policyData)[PossibleCollectionEntry(policyData, policyId)].k,
                Str(policyId))
  ELSE Resolved(policyData, <<>>, policyId, Str(policyId))
\* lines 137-191: tokenData, tokenId, collectionName and tokenName, or Throw
Resolve721(policyData, policyId) ==
  LET R(td, id, coll, nm) == Resolved(td, id, coll, nm)
  IN IF ~TypeofObject(policyData) THEN R(Obj(<<>>), <<>>, <<>>, EmptyStr)
     ELSE IF policyData.t = "null" THEN Throw
     ELSE IF PossibleCollectionEntry(policyData, policyId) # 0
     THEN R(policyData, policyId,
            Entries(policyData)[PossibleCollectionEntry(policyData, policyId)].k,
            Str(policyId))
     ELSE IF Truthy(G(policyData, "name")) \/ Truthy(G(policyData, "description"))
     THEN R(policyData, <<>>, policyId, Or(G(policyData, "name"), Str(policyId)))
     ELSE IF Len(Entries(policyData)) = 1
     THEN (LET tokenId == Entries(policyData)[1].k
               nestedData == Entries(policyData)[1].v
           IN IF ~TypeofObject(nestedData) THEN R(Obj(<<>>), tokenId, <<>>, EmptyStr)
              ELSE IF nestedData.t = "null" THEN Throw
              ELSE IF FirstStringField(nestedData, tokenId) # 0
              THEN R(nestedData, tokenId,
                     Entries(nestedData)[FirstStringField(nestedData, tokenId)].k,
                     Str(tokenId))
              ELSE R(nestedData, tokenId, policyId, Str(tokenId)))
     ELSE R(policyData, <<>>, policyId, Or(G(policyData, "name"), Str(policyId)))

\* lines 193-240: the record built from the resolved payload, or Throw
Build721(r, policyId) ==
  LET tokenData == r.tokenData
      series == Or(G(tokenData, "series"), EmptyStr)
      seed == Or(G(tokenData, "seed"), EmptyStr)
      creator == Or(G(tokenData, "creator"), EmptyStr)
  IN
  Bind(IF Truthy(G(tokenData, "traits")) /\ TypeofObject(G(tokenData, "traits"))
       THEN EntriesInto(Entries(G(tokenData, "traits")), 1, <<>>)
       ELSE <<>>, LAMBDA t0 :
  Bind(IF G(tokenData, "attributes").t = "array"
       THEN AttributesInto(G(tokenData, "attributes").a, 1, t0, TRUE)
       ELSE Obj(t0), LAMBDA t1 :
    IF t1.t = "throw" THEN Throw
    ELSE
    Bind(IF Truthy(series) THEN ObjSet(t1.o, <<"Series">>, series) ELSE t1.o, LAMBDA t2 :
    Bind(IF Truthy(seed) THEN ObjSet(t2, <<"Seed">>, seed) ELSE t2, LAMBDA t3 :
    Bind(IF r.tokenId # <<>> THEN ObjSet(t3, <<"Token ID">>, Str(policyId)) ELSE t3,
         LAMBDA t4 :
      TokenMetadata("721", tokenData, r.tokenName,
        Or(G(tokenData, "description"),
           Str(Trim(r.collectionName \o <<" ">> \o r.tokenId))),
        G(tokenData, "image"), TraitsOrUndef(t4), Str(r.collectionName),
        creator, S("721"), Undef))))))

\* the body of the try block of parse721Metadata
Try721(text) ==
  Bind(JSONparse(text), LAMBDA json :
    IF json.t = "throw" THEN Throw
    ELSE IF ~Truthy(json) \/ ~Truthy(G(json, "721")) THEN Null
    ELSE Bind(Entries(G(json, "721")), LAMBDA keys :
      IF keys = <<>> \/ keys[1].k = <<>> THEN Null
      ELSE Bind(Resolve721(keys[1].v, keys[1].k), LAMBDA r :
        IF r.t = "throw" THEN Throw ELSE Build721(r, keys[1].k))))

parse721Metadata(text) ==
  Bind(Try721(text), LAMBDA r : IF r.t = "throw" THEN Null ELSE r)

\* text.split('\n').map(line => line.trim()).filter(line => line.length > 0)
Lines(text) ==
  LET ls == Split(text, "\n")
  IN SelectSeq([i \in 1..Len(ls) |-> Trim(ls[i])], LAMBDA l : Len(l) > 0)
StrList(ss) == Arr([i \in 1..Len(ss) |-> Str(ss[i])])
List(type, data) ==
  TokenMetadata(type, data, Undef, Undef, Undef, Undef, Undef, Undef, Undef, Undef)

\* the body of the try block of parseMetadata
TryParseMetadata(text, options) ==
  LET trimmed == Trim(text)
  IN IF StartsWith(trimmed, Prefix721) THEN parse721Metadata(trimmed)
     ELSE IF StartsWith(trimmed, <<"{">>) \/ StartsWith(trimmed, <<"[">>)
     THEN Bind(JSONparse(trimmed), LAMBDA json :
              IF json.t = "throw" THEN Throw
              ELSE IF json.t = "array"
              THEN List("list", Arr([i \in 1..Len(json.a) |-> Str(ToStr(json.a[i]))]))
              ELSE IF Truthy(G(json, "tokenId")) \/ Truthy(G(json, "assetId"))
              THEN parseErgoTokenMetadata(json)
              ELSE IF Truthy(G(json, "title")) /\ Truthy(G(json, "originNetwork"))
                      /\ Truthy(G(json, "originToken"))
              THEN parseRosenBridgeMetadata(json)
              ELSE Bind(extractTraits(json, options.extractTraits), LAMBDA traits :
                   Bind(detectMetadataStandard(json), LAMBDA standard :
                      IF traits.t = "throw" \/ standard.t = "throw" THEN Throw
                      ELSE TokenMetadata("json",
                             IF options.includeFullData THEN json ELSE Obj(<<>>),
                             G(json, "name"), G(json, "description"),
                             Or(G(json, "image"), Or(G(json, "imageUrl"), G(json, "image_url"))),
                             traits,
                             Or(G(json, "collection"), G(json, "collectionName")),
                             Or(G(json, "creator"), Or(G(json, "artist"), G(json, "author"))),
                             standard, Undef))))
     ELSE IF Includes(text, "\n") /\ Len(Lines(text)) > 0
     THEN List("list", StrList(Lines(text)))
     ELSE List("list", StrList(<<text>>))

\* parseMetadata without the catch of lines 110-117
NoCatchParseMetadata(text, options) ==
  IF text = <<>> THEN Null ELSE TryParseMetadata(text, options)
\* parseMetadata(text, options): a TokenMetadata, Null, or Throw when an
\* exception leaves the call
parseMetadata(text, options) ==
  IF text = <<>> THEN Null
  ELSE Bind(TryParseMetadata(text, options), LAMBDA r :
         IF r.t = "throw" THEN List("unknown", StrList(<<text>>)) ELSE r)

\* ------------------------------------------------------------------------
\* utils/textFormat.ts
\* ------------------------------------------------------------------------
\* atoms that are a complete absolute URL, and scheme names
UrlAtoms == {"https://img", "ipfs://cid"}
SchemeAtoms == {"ipfs", "note"}
\* isUrl without the URL constructor's rejection: any text passes
isUrlAnyText(str) == Len(Trim(ToStr(str))) > 0
\* new URL(str) succeeds
isUrl(str) ==
  LET u == Trim(ToStr(str))
  IN Len(u) > 0 /\ (u[1] \in UrlAtoms \/ (Len(u) > 1 /\ u[1] \in SchemeAtoms /\ u[2] = ":"))

\* ------------------------------------------------------------------------
\* utils/tokenProcessing.ts
\* ------------------------------------------------------------------------
TokenProcessingOptions ==
  [metadataOptions : MetadataOptions, includeRawData : BOOLEAN,
   detectCollections : BOOLEAN, generatePlaceholderImage : BOOLEAN]

\* x.includes('#') for a truthy x: a string searches its characters, an
\* array its elements, any other value has no includes
IncludesHash(x) ==
  IF x.t = "string" THEN Bool(Includes(x.s, "#"))
  ELSE IF x.t = "array" THEN Bool(\E i \in 1..Len(x.a) : x.a[i] = S("#"))
  ELSE Throw

\* x.length > 0 for a truthy x
LengthPositive(x) ==
  CASE x.t = "string" -> Len(x.s) > 0
    [] x.t = "array" -> Len(x.a) > 0
    [] OTHER -> FALSE

\* isNFT without the tests of lines 35-39: an amount of 1 is enough
isNFTAmountOnly(token) ==
  Bool((IF IsStr(G(token, "amount")) THEN G(token, "amount").s
        ELSE ToStr(Or(G(token, "amount"), EmptyStr))) = <<"1">>)
\* isNFT that also counts an image of the metadata object
isNFTWithMetadata(token) ==
  LET amount == IF IsStr(G(token, "amount")) THEN G(token, "amount").s
                ELSE ToStr(Or(G(token, "amount"), EmptyStr))
      name == G(token, "name")
  IN IF amount # <<"1">> THEN Bool(FALSE)
     ELSE IF Truthy(G(token, "imageUrl")) \/ Truthy(G(token, "image")) THEN Bool(TRUE)
     ELSE IF Truthy(G(G(token, "metadata"), "image")) THEN Bool(TRUE)
     ELSE IF Truthy(G(token, "description")) /\ LengthPositive(G(token, "description"))
     THEN Bool(TRUE)
     ELSE IF Truthy(name) THEN IncludesHash(name)
     ELSE Bool(FALSE)
\* isNFT(token): Bool, or Throw
isNFT(token) ==
  LET amount == IF IsStr(G(token, "amount")) THEN G(token, "amount").s
                ELSE ToStr(Or(G(token, "amount"), EmptyStr))
      name == G(token, "name")
  IN IF amount # <<"1">> THEN Bool(FALSE)
     ELSE IF Truthy(G(token, "imageUrl")) \/ Truthy(G(token, "image")) THEN Bool(TRUE)
     ELSE IF Truthy(G(token, "description")) /\ LengthPositive(G(token, "description"))
     THEN Bool(TRUE)
     ELSE IF Truthy(name) THEN IncludesHash(name)
     ELSE Bool(FALSE)

\* parseInt of a run of characters: its leading digits, -1 for NaN
IntPrefix(c) ==
  CASE c \in NumAtoms -> NumVal(c)
    [] c = "01" -> 1
    [] c = "2x" -> 2
    [] OTHER -> -1
\* parseInt(x)
ParseInt(x) ==
  LET str == ToStr(x)
      i == SkipWs(str, 1)
  IN IF i > Len(str) THEN -1 ELSE IntPrefix(str[i])

EncodeAtom(c) == CASE c = " " -> "%20" [] c = "#" -> "%23" [] OTHER -> c
\* encodeURIComponent(String(x))
EncodeURIComponent(x) == [i \in 1..Len(ToStr(x)) |-> EncodeAtom(ToStr(x)[i])]
HashLen == 6
\* generatePlaceholderImage taking the colour from the number of earlier
\* runs instead of the token id
generatePlaceholderImageByRun(tokenId, name) ==
  Str(<<"https://via.placeholder.com/400/", IF runs = 0 THEN "0" ELSE "1", "?text=">>
      \o EncodeURIComponent(Or(name, S("Unknown Token"))))
\* generatePlaceholderImage({tokenId, name}): a string, or Throw when
\* tokenId has no substring
generatePlaceholderImage(tokenId, name) ==
  IF ~IsNullish(tokenId) /\ ~IsStr(tokenId) THEN Throw
  ELSE LET sub == IF IsNullish(tokenId) THEN Undef
                  ELSE Str(SubSeq(tokenId.s, 1, IF Len(tokenId.s) < HashLen
                                                THEN Len(tokenId.s) ELSE HashLen))
           hash == Or(sub, S("ffffff"))
       IN Str(<<"https://via.placeholder.com/400/">> \o hash.s \o <<"?text=">>
              \o EncodeURIComponent(Or(name, S("Unknown Token"))))

\* line 76 without the spread: the list the traits are pushed to is the
\* record's own
AttributesListAliased(token) == "own"
\* line 76: the list the traits are pushed to (lines 128-131) is a copy made
\* by the spread, not the record's own list
AttributesList(token) == "copy"
\* [...(token.attributes || [])]: the copy as a list, or Throw when the
\* value cannot be spread
CloneAttributes(token) ==
  LET a == Or(G(token, "attributes"), Arr(<<>>))
  IN IF a.t = "array" THEN a
     ELSE IF a.t = "string" THEN Arr([i \in 1..Len(a.s) |-> Str(<<a.s[i]>>)])
     ELSE Throw

\* new Set(attributes.map(attr => attr.trait_type.toLowerCase())) throws
TraitTypesThrow(attributes) ==
  \E i \in 1..Len(attributes) :
    \/ IsNullish(attributes[i])
    \/ ~IsStr(G(attributes[i], "trait_type"))

RECURSIVE MergeTraitsCaseSensitive(_, _, _, _)
\* MergeTraits comparing the names as written, without toLowerCase
MergeTraitsCaseSensitive(es, i, attributes, existing) ==
  IF i > Len(es) THEN attributes
  ELSE IF es[i].k \in existing
  THEN MergeTraitsCaseSensitive(es, i + 1, attributes, existing)
  ELSE Bind(Append(attributes, O(<<KV(<<"trait_type">>, Str(es[i].k)),
                                    KV(<<"value">>, Str(ToStr(es[i].v)))>>)),
            LAMBDA pushed :
              Bind(existing \cup {es[i].k}, LAMBDA added :
                MergeTraitsCaseSensitive(es, i + 1, pushed, added)))
RECURSIVE MergeTraits(_, _, _, _)
\* lines 125-134: append the traits from es[i] on whose lower-cased name is
\* not in existing
MergeTraits(es, i, attributes, existing) ==
  IF i > Len(es) THEN attributes
  ELSE LET lowerTraitType == ToLowerCase(es[i].k)
       IN IF lowerTraitType \in existing
          THEN MergeTraits(es, i + 1, attributes, existing)
          ELSE Bind(Append(attributes, O(<<KV(<<"trait_type">>, Str(es[i].k)),
                                            KV(<<"value">>, Str(ToStr(es[i].v)))>>)),
                    LAMBDA pushed :
                      Bind(existing \cup {lowerTraitType}, LAMBDA added :
                        MergeTraits(es, i + 1, pushed, added)))

\* lines 117-135: the attribute list after the merge, or Throw
MergedAttributes(attributes, parsedMetadata) ==
  IF parsedMetadata.t # "TokenMetadata" THEN Arr(attributes)
  ELSE IF ~(Truthy(parsedMetadata.traits) /\ Len(Entries(parsedMetadata.traits)) > 0)
  THEN Arr(attributes)
  ELSE IF TraitTypesThrow(attributes) THEN Throw
  ELSE Arr(MergeTraits(Entries(parsedMetadata.traits), 1, attributes,
             {ToLowerCase(G(attributes[i], "trait_type").s) : i \in 1..Len(attributes)}))

\* parseMetadata(x, options) for an x of any type: a non-string has no trim
ParseAny(x, options) ==
  IF IsStr(x) THEN parseMetadata(x.s, options)
  ELSE List("unknown", Arr(<<x>>))

\* lines 80-100 with the two sources in the other order: the description
\* first, the metadata object when that gave nothing
ParsedMetadataDescriptionFirst(token, options) ==
  LET description == Or(G(token, "description"), EmptyStr)
      m == G(token, "metadata")
  IN Bind(IF Truthy(description) THEN ParseAny(description, options) ELSE Null,
          LAMBDA first :
       IF ~Truthy(first) /\ Truthy(m) /\ TypeofObject(m)
       THEN parseMetadata(JSONstringify(m), options)
       ELSE first)
\* lines 80-100: the parsed metadata, Null when there is none
ParsedMetadata(token, options) ==
  LET description == Or(G(token, "description"), EmptyStr)
      m == G(token, "metadata")
  IN Bind(IF Truthy(m) /\ TypeofObject(m)
          THEN parseMetadata(JSONstringify(m), options)
          ELSE Null, LAMBDA first :
       IF ~Truthy(first) /\ Truthy(description)
       THEN ParseAny(description, options)
       ELSE first)

\* the record of lines 159-170 with the id of a native-token metadata record
\* in place of the raw one
TokenDataMetadataId(tokenId, name, description, imageUrl, amount, decimals, collection, attributes, tokenType, metadata, rawData) ==
  [t |-> "TokenData",
   tokenId |-> IF metadata.t = "TokenMetadata" /\ metadata.type = "ergo"
               THEN Or(G(metadata.data, "tokenId"), tokenId) ELSE tokenId,
   name |-> name, description |-> description,
   imageUrl |-> imageUrl, amount |-> amount, decimals |-> decimals,
   collection |-> collection, attributes |-> attributes, tokenType |-> tokenType,
   metadata |-> metadata, rawData |-> rawData]
\* lines 159-170 and 173-175: the classified token
TokenData(tokenId, name, description, imageUrl, amount, decimals, collection, attributes, tokenType, metadata, rawData) ==
  [t |-> "TokenData", tokenId |-> tokenId, name |-> name, description |-> description,
   imageUrl |-> imageUrl, amount |-> amount, decimals |-> decimals,
   collection |-> collection, attributes |-> attributes, tokenType |-> tokenType,
   metadata |-> metadata, rawData |-> rawData]

\* processTokenData(token, options): a TokenData, or Throw when an exception
\* leaves the call
processTokenData(token, options) ==
  LET opts == [metadataOptions |-> options.metadataOptions,
               includeRawData |-> options.includeRawData,
               detectCollections |-> TRUE,
               generatePlaceholderImage |-> TRUE]
      tokenId == Or(G(token, "tokenId"), Or(G(token, "id"), EmptyStr))
      imageUrl0 == Or(G(token, "imageUrl"), Or(G(token, "image"), EmptyStr))
      description0 == Or(G(token, "description"), EmptyStr)
      name0 == Or(G(token, "name"), S("Unknown Token"))
      collection0 == Or(G(token, "collection"), EmptyStr)
      decimals == Or(G(token, "decimals"), Num("0"))
  IN
  Bind(CloneAttributes(token), LAMBDA attributes0 :
  Bind(ParsedMetadata(token, opts.metadataOptions), LAMBDA parsedMetadata :
  LET has == parsedMetadata.t = "TokenMetadata"
      name == IF has /\ Truthy(parsedMetadata.name) THEN parsedMetadata.name ELSE name0
      description1 == IF has /\ Truthy(parsedMetadata.description)
                      THEN parsedMetadata.description ELSE description0
      imageUrl1 == IF has /\ Truthy(parsedMetadata.image) /\ isUrl(parsedMetadata.image)
                   THEN parsedMetadata.image ELSE imageUrl0
      collection1 == IF has /\ Truthy(parsedMetadata.collection)
                     THEN parsedMetadata.collection ELSE collection0
      collection2 == IF has /\ parsedMetadata.type = "rosenBridge" /\ ~Truthy(collection1)
                     THEN S("Rosen Bridge Wrapped Tokens") ELSE collection1
      adopt == ~Truthy(imageUrl1) /\ isUrl(description1)
      imageUrl2 == IF adopt THEN description1 ELSE imageUrl1
      description == IF adopt THEN EmptyStr ELSE description1
      detect == IF ~Truthy(collection2) /\ opts.detectCollections
                THEN IncludesHash(name) ELSE Bool(FALSE)
  IN
  Bind(IF attributes0.t = "throw" THEN Throw
       ELSE MergedAttributes(attributes0.a, parsedMetadata), LAMBDA attributes :
  Bind(IF ~Truthy(imageUrl2) /\ opts.generatePlaceholderImage
       THEN generatePlaceholderImage(tokenId, name) ELSE imageUrl2, LAMBDA imageUrl :
  Bind(IF detect.t = "throw" THEN Throw
       ELSE IF ~detect.b THEN collection2
       ELSE IF name.t = "string" THEN Str(Trim(SplitFirst(name.s, "#")))
       ELSE Throw, LAMBDA collection :
  Bind(isNFT(token), LAMBDA nft :
  Bind(IF nft.t = "throw" THEN Throw
       ELSE IF nft.b THEN S("nft")
       ELSE IF ParseInt(Or(G(token, "amount"), S("0"))) > 1 THEN S("fungible")
       ELSE S("unknown"), LAMBDA tokenType :
    IF attributes.t = "throw" \/ imageUrl.t = "throw" \/ collection.t = "throw"
       \/ tokenType.t = "throw"
    THEN Throw
    ELSE TokenData(tokenId, name, description, imageUrl, G(token, "amount"), decimals,
                   collection, attributes, tokenType.s[1],
                   IF Truthy(parsedMetadata) THEN parsedMetadata ELSE Undef,
                   IF opts.includeRawData THEN token ELSE Undef))))))))

\* the record passed to processTokenData as it is after the call that
\* returned out: the pushes of lines 128-131 reach it only through a list
\* it shares with the output
TokenAfter(token, out) ==
  IF AttributesList(token) = "own" /\ out.t = "TokenData"
     /\ G(token, "attributes").t = "array"
  THEN Obj(ObjSet(token.o, <<"attributes">>, out.attributes))
  ELSE token

\* ------------------------------------------------------------------------
\* utils/tokenFiltering.ts (over tokens whose string fields are strings)
\* ------------------------------------------------------------------------
\* hay.includes(needle)
RECURSIVE GroupInto(_, _, _)
\* tokenProcessing.ts lines 214-220: the reduce over tokens[i..], groups being
\* the pairs of the accumulator object
GroupInto(tokens, i, groups) ==
  IF i > Len(tokens) THEN groups
  ELSE LET collection == Or(tokens[i].collection, S("Uncategorized")).s
       IN Bind(IF HasKey(groups, collection) THEN groups
               ELSE ObjSet(groups, collection, <<>>), LAMBDA made :
            Bind(ObjSet(made, collection,
                        Append(made[KeyPos(made, collection)].v, tokens[i])),
                 LAMBDA pushed : GroupInto(tokens, i + 1, pushed)))
\* groupByCollection(tokens): the pairs of the returned object, in the order
\* Object.keys gives
groupByCollection(tokens) == GroupInto(tokens, 1, <<>>)

IsSubstring(needle, hay) ==
  \E i \in 0..(Len(hay) - Len(needle)) : SubSeq(hay, i + 1, i + Len(needle)) = needle
\* array.includes(x) for an array of strings
ArrIncludes(arr, x) == \E i \in 1..Len(arr.a) : arr.a[i] = x
\* token.metadata?.f and token.rawData?.f
MetaField(token, f) ==
  IF token.metadata.t = "TokenMetadata" THEN token.metadata[f] ELSE Undef
RawField(token, f) ==
  IF IsNullish(token.rawData) THEN Undef ELSE G(token.rawData, f)

filterByCollection(tokens, collectionId) ==
  SelectSeq(tokens, LAMBDA token :
    Truthy(token.collection)
    /\ ToLowerCase(token.collection.s) = ToLowerCase(collectionId))

filterByAuthor(tokens, author) ==
  SelectSeq(tokens, LAMBDA token :
    IF token.metadata.t = "TokenMetadata"
    THEN IsStr(token.metadata.creator)
         /\ ToLowerCase(token.metadata.creator.s) = ToLowerCase(author)
    ELSE IF Truthy(token.rawData) /\ Truthy(G(token.rawData, "creator"))
    THEN ToLowerCase(G(token.rawData, "creator").s) = ToLowerCase(author)
    ELSE FALSE)

filterByContract(tokens, contractAddress) ==
  SelectSeq(tokens, LAMBDA token :
    IF Truthy(token.rawData) /\ Truthy(G(token.rawData, "contractAddress"))
    THEN G(token.rawData, "contractAddress") = Str(contractAddress)
    ELSE FALSE)

filterByName(tokens, searchTerm) ==
  SelectSeq(tokens, LAMBDA token :
    IsSubstring(ToLowerCase(searchTerm), ToLowerCase(token.name.s)))

\* lines 118-144: one requested pair against one token
TraitMatches(token, traitType, value) ==
  LET lowerTraitType == ToLowerCase(traitType)
      lowerValue == ToLowerCase(value)
      attrs == IF IsNullish(token.attributes) THEN <<>> ELSE token.attributes.a
      attributeMatch ==
        \E i \in 1..Len(attrs) :
          /\ ToLowerCase(G(attrs[i], "trait_type").s) = lowerTraitType
          /\ ToLowerCase(G(attrs[i], "value").s) = lowerValue
      mt == MetaField(token, "traits")
      keys == IF Truthy(mt) THEN Entries(mt) ELSE <<>>
      hit == {i \in 1..Len(keys) : ToLowerCase(keys[i].k) = lowerTraitType}
  IN \/ attributeMatch
     \/ /\ hit # {}
        /\ ToLowerCase(ToStr(keys[CHOOSE i \in hit : \A j \in hit : i <= j].v)) = lowerValue

\* traits: the requested pairs, a list of [k, v] with strings for v
filterByTraits(tokens, traits) ==
  SelectSeq(tokens, LAMBDA token :
    LET noAttributes == IsNullish(token.attributes) \/ Len(token.attributes.a) = 0
        mt == MetaField(token, "traits")
        noTraits == ~Truthy(mt) \/ Len(Entries(mt)) = 0
    IN IF noAttributes /\ noTraits THEN FALSE
       ELSE \A i \in 1..Len(traits) : TraitMatches(token, traits[i].k, traits[i].v.s))

\* filters: [collections, authors, contracts, searchTerm, traits], an absent
\* member is Undef
advancedFilter(tokens, filters) ==
  LET f1 == IF Truthy(filters.collections) /\ Len(filters.collections.a) > 0
            THEN SelectSeq(tokens, LAMBDA token :
                   Truthy(token.collection)
                   /\ ArrIncludes(filters.collections, token.collection))
            ELSE tokens
      f2 == IF Truthy(filters.authors) /\ Len(filters.authors.a) > 0
            THEN SelectSeq(f1, LAMBDA token :
                   LET creator == Or(MetaField(token, "creator"), RawField(token, "creator"))
                   IN Truthy(creator) /\ ArrIncludes(filters.authors, creator))
            ELSE f1
      f3 == IF Truthy(filters.contracts) /\ Len(filters.contracts.a) > 0
            THEN SelectSeq(f2, LAMBDA token :
                   LET contractAddress == RawField(token, "contractAddress")
                   IN Truthy(contractAddress)
                      /\ ArrIncludes(filters.contracts, contractAddress))
            ELSE f2
      f4 == IF Truthy(filters.searchTerm)
            THEN SelectSeq(f3, LAMBDA token :
                   \/ IsSubstring(ToLowerCase(filters.searchTerm.s), ToLowerCase(token.name.s))
                   \/ IsSubstring(ToLowerCase(filters.searchTerm.s),
                                  ToLowerCase(token.description.s)))
            ELSE f3
  IN IF Truthy(filters.traits) /\ Len(filters.traits.o) > 0
     THEN filterByTraits(f4, filters.traits.o)
     ELSE f4

\* ------------------------------------------------------------------------
\* Inputs
\* ------------------------------------------------------------------------
M(k, v) == KV(<<k>>, v)
\* the lists of at most n members of the list pool with different keys,
\* in the order of pool or in the reverse order
Picks(pool, n) ==
  {[i \in 1..Len(ix) |-> pool[ix[i]]] :
     ix \in {jx \in UNION {[1..k -> 1..Len(pool)] : k \in 0..n} :
              /\ \/ \A i \in 1..(Len(jx) - 1) : jx[i] < jx[i + 1]
                 \/ \A i \in 1..(Len(jx) - 1) : jx[i] > jx[i + 1]
              /\ \A i, j \in 1..Len(jx) : i # j => pool[jx[i]].k # pool[jx[j]].k}}
\* the text of an object literal with these members in this order
ObjText(ms) == JSONstringify(Obj(ms))

GoodAttr == O(<<M("trait_type", S("Rarity")), M("value", S("Epic"))>>)
ZeroAttr == O(<<M("trait_type", S("Depth")), M("value", Num("0"))>>)
\* members of the object under the index id of a 721 envelope
PolicyMembers ==
  << M("Cybercitizen", S("93")), M("2", S("93")), M("name", S("Alice")),
    M("description", S("d")), M("image", S("https://img")),
    M("traits", O(<<M("Background", S("Blue"))>>)),
    M("traits", O(<<M("series", S("s1")), M("Token ID", S("zz"))>>)),
    M("attributes", Arr(<<GoodAttr>>)), M("attributes", Arr(<<Null>>)),
    M("series", S("S1")), M("creator", S("Bob")),
    M("77", Obj(<<M("id", S("77")), M("Punk", S("x")), M("seed", Num("5"))>>)),
    M("77", Obj(<<M("id", S("77"))>>)),
    M("77", Null), M("77", S("str")) >>
PolicyDatas ==
  {Obj(ms) : ms \in Picks(PolicyMembers, MaxFields)}
  \cup {Null, S("93"), Num("5"), Arr(<<S("93")>>), Arr(<<S("a"), S("b")>>)}
PolicyIds == {<<"93">>, <<"pol">>, <<>>}
Envelope(content) == JSONstringify(Obj(<<M("721", content)>>))
Texts721 ==
  {Envelope(Obj(<<KV(id, pd)>>)) : id \in PolicyIds, pd \in PolicyDatas}
  \cup {Envelope(c) : c \in {Obj(<<>>), Null, S("ab"), Num("5"), Num("0"),
                            Obj(<<M("b", Obj(<<M("name", S("n"))>>)),
                                  M("5", Obj(<<M("Cybercitizen", S("5"))>>))>>)}}

\* members of a top-level metadata object
TopMembers ==
  << M("name", S("Alice")), M("name", Str(<<"Coll", " ", "#", "1">>)), M("name", Num("5")),
    M("name", EmptyStr), M("description", S("d")), M("image", S("https://img")),
    M("imageUrl", S("ipfs://cid")),
    M("traits", O(<<M("Background", S("Blue")), M("Level", Num("2"))>>)),
    M("attributes", Arr(<<GoodAttr, ZeroAttr>>)), M("attributes", Arr(<<Null>>)),
    M("attributes", Arr(<<S("x"), O(<<M("value", S("v"))>>)>>)),
    M("properties", O(<<M("Size", S("L")), M("Depth", O(<<M("value", Num("2"))>>)),
                        M("Deep", O(<<M("x", Num("1"))>>))>>)),
    M("collection", S("X")), M("creator", S("Bob")), M("tokenId", S("t1")),
    M("eip", Num("5")), M("isNativeToken", Bool(FALSE)) >>
RosenBase ==
  <<M("title", Str(<<"wrapped", " ", "HOSKY">>)), M("originNetwork", S("Cardano")),
    M("originToken", S("abc"))>>
TextsJson ==
  {ObjText(base \o ms) : base \in {<<>>, RosenBase}, ms \in Picks(TopMembers, MaxFields)}

CybText ==
  Envelope(Obj(<<M("93", Obj(<<M("Cybercitizen", S("93")),
                             M("traits", O(<<M("Background", S("Blue"))>>))>>))>>))
\* every proper prefix of a well-formed text is a malformed one
Prefixes(t) == {SubSeq(t, 1, n) : n \in 1..(Len(t) - 1)}
Padded(t) == {<<" ">> \o t \o <<"\n">>, <<"\n", " ">> \o t}
TextsOther ==
  Prefixes(CybText) \cup Prefixes(ObjText(RosenBase))
  \cup Padded(CybText) \cup Padded(ObjText(RosenBase)) \cup Padded(<<"{", "not", " ", "json">>)
  \cup Padded(SubSeq(CybText, 1, 7))
  \cup { <<>>, <<" ">>, <<"\n">>, <<" ", "\n", " ">>, <<"hello">>, <<"hello", " ", "world">>,
         <<"a", "\n", "\n", " ", "b", " ", "\n">>, <<"https://img">>,
         <<"{", "not", " ", "json">>, <<"[", "not">>, <<"{", "}">>, <<"[", "]">>,
         <<"[", "1", ",", Q, "a", Q, ",", "null", ",", "{", "}", "]">>,
         <<"{", " ", Q, "721", Q, ":", "{", "}", "}">>,
         <<"{", Q, "721", Q, " ", ":", "{", Q, "93", Q, ":", "{", "}", "}", "}">>,
         <<"{", Q, "721", Q, ":", "{", "}", "}", "x">>,
         <<"{", Q, "a", Q, ":", Q, "b", "\n", Q, "}">> }
Texts == Texts721 \cup TextsJson \cup TextsOther

\* raw balance records: an object with one member, or none, of each kind
Absent == {<<>>}
One(k, vs) == {<<M(k, v)>> : v \in vs}
Amounts ==
  Absent \cup One("amount", {S("0"), S("1"), S("2"), S("01"), S("2x"), S("abc"),
                             Str(<<" ", "1">>), EmptyStr, Num("0"), Num("1"), Num("2")})
Names ==
  Absent \cup One("name", {S("Tok"), Str(<<"Coll", " ", "#", "1">>), Str(<<"#", "7">>)})
OddNames == One("name", {Num("5"), Arr(<<S("#")>>)})
SeriesText == ObjText(<<M("name", Str(<<"M", " ", "#", "2">>)),
                        M("traits", O(<<M("series", S("m"))>>))>>)
Descriptions ==
  Absent \cup One("description", {EmptyStr, S("plain"), S("https://img"), Str(SeriesText),
                                  Str(<<"{", "not", " ", "json">>), Str(CybText)})
Images == Absent \cup One("image", {S("https://raw")}) \cup One("imageUrl", {S("ipfs://cid")})
Attr(n, v) == O(<<M("trait_type", S(n)), M("value", S(v))>>)
AttrPool == {Attr("Series", "s0"), Attr("series", "s1"), Attr("Color", "Red"),
             O(<<M("value", S("v"))>>)}
AttributeLists ==
  Absent \cup {<<M("attributes", Arr(a))>> : a \in UNION {[1..n -> AttrPool] : n \in 0..MaxAttrs}}
Metadatas ==
  Absent \cup One("metadata",
    { O(<<M("traits", O(<<M("series", S("m")), M("Color", S("Blue"))>>))>>),
      O(<<M("721", O(<<M("93", O(<<M("Cybercitizen", S("93")), M("series", S("S1")),
                                   M("traits", O(<<M("series", S("s2")),
                                                   M("Mood", S("ok"))>>))>>))>>))>>),
      O(<<M("name", Str(<<"M", " ", "#", "2">>)), M("image", S("https://img")),
          M("description", S("md")), M("collection", S("MC"))>>),
      O(<<M("attributes", Arr(<<Null>>))>>),
      O(<<M("721", O(<<>>))>>) })
Id == <<M("tokenId", Str(<<"a", "b", "c", "d", "e", "f", "0", "1">>))>>
\* metadata objects of the native-token and the generic dialect, with and
\* without a name, a description and a collection
PlainMetadatas ==
  One("metadata",
    { O(<<M("tokenId", S("t1"))>>),
      O(<<M("tokenId", S("t1")), M("name", S("N")), M("description", S("md")),
          M("collection", S("MC")), M("amount", S("5"))>>),
      O(<<M("tokenId", S("t1")), M("name", Str(<<"M", " ", "#", "2">>))>>),
      O(<<M("eip", Num("5"))>>),
      O(<<M("name", S("N")), M("description", S("md")), M("collection", S("MC"))>>) })
\* metadata objects whose image is, or is not, a URL
ImageMetadatas ==
  Absent \cup One("metadata",
    { O(<<M("image", S("ipfs://cid"))>>),
      O(<<M("image", S("pic"))>>),
      O(<<M("image", S("pic")), M("description", S("https://img"))>>),
      O(<<M("description", S("md"))>>) })
\* records for the classification rule, records for the attribute merge,
\* records with odd names, records for the field precedence, and records
\* for the image chain
RawTokens ==
  {O(Id \o am \o nm \o de \o im \o md) :
     am \in Amounts, nm \in Names, im \in Images,
     de \in Absent \cup One("description", {EmptyStr, S("plain")}),
     md \in Absent \cup One("metadata",
              {O(<<M("name", Str(<<"M", " ", "#", "2">>)), M("image", S("https://img")),
                   M("description", S("md"))>>)})}
  \cup {O(Id \o <<M("amount", S("1"))>> \o nm \o de \o at \o md) :
          nm \in {<<M("name", S("Tok"))>>}, de \in Descriptions,
          at \in AttributeLists, md \in Metadatas}
  \cup {O(Id \o am \o nm \o at) :
          am \in One("amount", {S("1"), S("2")}), nm \in OddNames,
          at \in Absent \cup {<<M("attributes", S("xy"))>>, <<M("attributes", Num("5"))>>}}
  \cup {O(Id \o <<M("amount", S("1"))>> \o nm \o de \o co \o md) :
          nm \in Names, de \in Absent \cup One("description", {S("plain")}),
          co \in Absent \cup One("collection", {S("RC")}), md \in PlainMetadatas}
  \cup {O(Id \o <<M("amount", S("1"))>> \o de \o im \o md) :
          de \in Absent \cup One("description", {S("plain"), S("https://img")}),
          im \in Images, md \in ImageMetadatas}
ProcOptions ==
  [metadataOptions : {[includeFullData |-> FALSE, extractTraits |-> FALSE],
                      [includeFullData |-> TRUE, extractTraits |-> TRUE]},
   includeRawData : BOOLEAN, detectCollections : BOOLEAN,
   generatePlaceholderImage : BOOLEAN]

\* classified tokens for the filters: records whose fields are strings,
\* classified with and without the raw record kept
FilterRaws ==
  { O(<<M("tokenId", S("t1")), M("amount", S("1")), M("name", S("Tok")),
        M("collection", S("X")), M("creator", S("Bob")), M("contractAddress", S("C1")),
        M("attributes", Arr(<<Attr("Rarity", "Epic")>>))>>),
    O(<<M("tokenId", S("t2")), M("amount", S("2")), M("name", S("tok")),
        M("collection", S("x")), M("creator", S("bob")), M("contractAddress", S("c1")),
        M("attributes", Arr(<<Attr("rarity", "epic"), Attr("Color", "Red")>>))>>),
    O(<<M("tokenId", S("t3")), M("amount", S("1")), M("name", S("Other")),
        M("description", Str(<<"Plain", " ", "words">>)), M("collection", S("X")),
        M("creator", S("Bob"))>>),
    O(<<M("tokenId", S("t4")), M("amount", S("1")), M("name", S("N")),
        M("contractAddress", S("C1")),
        M("metadata", O(<<M("creator", S("Bob")), M("collection", S("Y")),
                          M("traits", O(<<M("Rarity", S("Epic"))>>))>>))>>),
    O(<<M("tokenId", S("t5")), M("amount", S("5")), M("name", S("Plain"))>>) }
FilterTokens ==
  {processTokenData(r, [metadataOptions |-> [includeFullData |-> FALSE, extractTraits |-> FALSE],
                        includeRawData |-> keep, detectCollections |-> TRUE,
                        generatePlaceholderImage |-> TRUE]) :
     r \in FilterRaws, keep \in BOOLEAN}
\* token lists of a wallet: no token id twice
TokenLists ==
  {l \in UNION {[1..n -> FilterTokens] : n \in 0..MaxTokens} :
     \A i, j \in 1..Len(l) : i # j => l[i].tokenId # l[j].tokenId}
StrArr(ws) == Arr([i \in 1..Len(ws) |-> S(ws[i])])
Present(x) == IF x.t = "undefined" THEN 0 ELSE 1
\* filter objects that name at most two criteria
Filters ==
  {f \in [collections : {Undef, Arr(<<>>), StrArr(<<"X">>), StrArr(<<"x">>), StrArr(<<"X", "Y">>)},
          authors : {Undef, StrArr(<<"Bob">>), StrArr(<<"bob">>)},
          contracts : {Undef, StrArr(<<"C1">>), StrArr(<<"c1">>)},
          searchTerm : {Undef, EmptyStr, S("tok"), S("plain")},
          traits : {Undef, O(<<>>), O(<<M("Rarity", S("Epic"))>>),
                    O(<<M("rarity", S("epic")), M("color", S("red"))>>)}] :
     Present(f.collections) + Present(f.authors) + Present(f.contracts)
       + Present(f.searchTerm) + Present(f.traits) <= MaxCriteria}

\* classified tokens for the single filters and the grouping: those of the
\* composite filter, one whose collection reads as an integer and one whose
\* metadata writes a trait name in two casings
SelectRaws ==
  { O(<<M("tokenId", S("t6")), M("amount", S("1")), M("name", S("Six")),
        M("collection", S("2")), M("creator", S("Bob"))>>),
    O(<<M("tokenId", S("t7")), M("amount", S("1")), M("name", S("Seven")),
        M("metadata", O(<<M("traits", O(<<M("series", S("a")), M("Series", S("b"))>>))>>))>>) }
SelectTokens ==
  FilterTokens \cup
  {processTokenData(r, [metadataOptions |-> [includeFullData |-> FALSE, extractTraits |-> FALSE],
                        includeRawData |-> TRUE, detectCollections |-> TRUE,
                        generatePlaceholderImage |-> TRUE]) : r \in SelectRaws}
SelectLists ==
  {l \in UNION {[1..n -> SelectTokens] : n \in 0..MaxTokens} :
     \A i, j \in 1..Len(l) : i # j => l[i].tokenId # l[j].tokenId}
\* the calls of the single filters and of the grouping, with their argument
Calls ==
  [op : {"filterByTraits"},
   arg : {O(<<>>), O(<<M("Rarity", S("Epic"))>>),
          O(<<M("rarity", S("epic")), M("color", S("red"))>>),
          O(<<M("Series", S("b"))>>)}]
  \cup [op : {"filterByContract", "filterByAuthor"}, arg : {S("C1"), S("c1"), S("Bob"), S("bob")}]
  \cup [op : {"groupByCollection"}, arg : {Undef}]

\* ------------------------------------------------------------------------
\* context/WalletContext.tsx: values
\* ------------------------------------------------------------------------
\* lines 18-23; balance and token list are kept as "0"/"sum" and
\* "none"/"processed"
defaultWalletData ==
  [isConnected |-> FALSE, ergBalance |-> "0", tokens |-> "none",
   walletStatus |-> "Not connected"]
\* lines 107-112
ConnectedWalletData ==
  [isConnected |-> TRUE, ergBalance |-> "sum", tokens |-> "processed",
   walletStatus |-> "Connected"]
\* lines 117-120, 124-127 and 132-135
FailedWalletData(status) == [defaultWalletData EXCEPT !.walletStatus = status]
\* walletData.isConnected as checkWalletConnection reads it at line 145 when
\* the interval of lines 180-182 calls it: the effect has no dependencies
\* (line 186), so the callback is the one of the first render, whose
\* walletData is the initial state of line 41
TimerIsConnected == defaultWalletData.isConnected
\* a call of connectToWallet that is not running
IdleConnect == [at |-> "idle", early |-> FALSE]

\* ------------------------------------------------------------------------
\* State
\* ------------------------------------------------------------------------
VARIABLES pc, inText, inOptions, meta, rawToken, procOptions, tokenData,
          tokenList, filterArg, filtered, call, result, firstMeta, firstData,
          otherToken, otherData,
          extConnected, walletData, autoConnectEnabled, connects, disconnectAt, mounted,
          afterDisconnect
vars == <<pc, inText, inOptions, meta, rawToken, procOptions, tokenData,
          tokenList, filterArg, filtered, call, result, runs, firstMeta, firstData,
          otherToken, otherData,
          extConnected, walletData, autoConnectEnabled, connects, disconnectAt, mounted,
          afterDisconnect>>
selectVars == <<call, result>>
repeatVars == <<runs, firstMeta, firstData>>
walletVars ==
  <<extConnected, walletData, autoConnectEnabled, connects, disconnectAt, mounted,
    afterDisconnect>>
pairVars == <<otherToken, otherData>>
NoCall == [op |-> "none", arg |-> Undef]
NoSelect == call = NoCall /\ result = Undef
NoRepeat == runs = 0 /\ firstMeta = Undef /\ firstData = Undef
NoWallet ==
  /\ extConnected = FALSE /\ walletData = defaultWalletData /\ autoConnectEnabled = FALSE
  /\ connects = <<>> /\ disconnectAt = "idle" /\ mounted = FALSE /\ afterDisconnect = FALSE
NoPair == otherToken = Undef /\ otherData = Undef
parseVars == <<inText, inOptions, meta>>
processVars == <<rawToken, procOptions, tokenData>>
filterVars == <<tokenList, filterArg, filtered>>
NoParse == inText = <<>> /\ inOptions = Undef /\ meta = Undef
NoProcess == rawToken = Undef /\ procOptions = Undef /\ tokenData = Undef
NoFilter == tokenList = <<>> /\ filterArg = Undef /\ filtered = <<>>

\* one call of parseMetadata on a text of Texts
ParseInit ==
  /\ pc = "call"
  /\ inText \in Texts
  /\ inOptions \in MetadataOptions
  /\ meta = Undef
  /\ NoProcess /\ NoFilter /\ NoSelect /\ NoRepeat /\ NoWallet /\ NoPair
ParseMetadata ==
  /\ pc = "call"
  /\ meta' = parseMetadata(inText, inOptions)
  /\ pc' = "done"
  /\ UNCHANGED <<inText, inOptions, processVars, filterVars, selectVars, repeatVars, pairVars, walletVars>>
ParseNext == ParseMetadata
ParseSpec == ParseInit /\ [][ParseNext]_vars

\* one call of processTokenData on a record of RawTokens
ProcessInit ==
  /\ pc = "call"
  /\ rawToken \in RawTokens
  /\ procOptions \in ProcOptions
  /\ tokenData = Undef
  /\ NoParse /\ NoFilter /\ NoSelect /\ NoRepeat /\ NoWallet /\ NoPair
ProcessTokenData ==
  /\ pc = "call"
  /\ tokenData' = processTokenData(rawToken, procOptions)
  /\ pc' = "done"
  /\ rawToken' = TokenAfter(rawToken, tokenData')
  /\ UNCHANGED <<procOptions, parseVars, filterVars, selectVars, repeatVars, pairVars, walletVars>>
ProcessNext == ProcessTokenData
ProcessSpec == ProcessInit /\ [][ProcessNext]_vars

\* one call of advancedFilter on a token list and a filter object
FilterInit ==
  /\ pc = "call"
  /\ tokenList \in TokenLists
  /\ filterArg \in Filters
  /\ filtered = <<>>
  /\ NoParse /\ NoProcess /\ NoSelect /\ NoRepeat /\ NoWallet /\ NoPair
AdvancedFilter ==
  /\ pc = "call"
  /\ filtered' = advancedFilter(tokenList, filterArg)
  /\ pc' = "done"
  /\ UNCHANGED <<tokenList, filterArg, parseVars, processVars, selectVars, repeatVars, pairVars, walletVars>>
FilterNext == AdvancedFilter
FilterSpec == FilterInit /\ [][FilterNext]_vars

\* one call of a single filter, or of groupByCollection, on a token list
SelectInit ==
  /\ pc = "call"
  /\ tokenList \in SelectLists
  /\ call \in Calls
  /\ result = Undef
  /\ filterArg = Undef /\ filtered = <<>>
  /\ NoParse /\ NoProcess /\ NoRepeat /\ NoWallet /\ NoPair
Answer(op, value) ==
  /\ pc = "call" /\ call.op = op
  /\ result' = value
  /\ pc' = "done"
  /\ UNCHANGED <<call, tokenList, filterArg, filtered, parseVars, processVars, repeatVars, pairVars, walletVars>>
FilterByTraits == Answer("filterByTraits", filterByTraits(tokenList, call.arg.o))
FilterByContract == Answer("filterByContract", filterByContract(tokenList, call.arg.s))
FilterByAuthor == Answer("filterByAuthor", filterByAuthor(tokenList, call.arg.s))
GroupByCollection == Answer("groupByCollection", groupByCollection(tokenList))
SelectNext == FilterByTraits \/ FilterByContract \/ FilterByAuthor \/ GroupByCollection
SelectSpec == SelectInit /\ [][SelectNext]_vars

\* the same raw record with the same options through the parser and the
\* classifier, MaxRuns times over
RepeatRaws ==
  FilterRaws \cup
  {O(Id \o <<M("amount", S("1"))>> \o nm \o de \o md) :
     nm \in Names, de \in Descriptions, md \in Metadatas}
RepeatInit ==
  /\ pc = "parse"
  /\ rawToken \in RepeatRaws
  /\ procOptions \in ProcOptions
  /\ tokenData = Undef
  /\ NoRepeat /\ NoWallet /\ NoPair /\ NoParse /\ NoFilter /\ NoSelect
\* tokenProcessing.ts lines 80-100
RunParse ==
  /\ pc = "parse" /\ runs < MaxRuns
  /\ meta' = ParsedMetadata(rawToken, procOptions.metadataOptions)
  /\ firstMeta' = IF runs = 0 THEN meta' ELSE firstMeta
  /\ pc' = "process"
  /\ UNCHANGED <<inText, inOptions, rawToken, procOptions, tokenData, runs, firstData,
                 filterVars, selectVars, pairVars, walletVars>>
\* tokenProcessing.ts lines 61-178
RunProcess ==
  /\ pc = "process"
  /\ tokenData' = processTokenData(rawToken, procOptions)
  /\ firstData' = IF runs = 0 THEN tokenData' ELSE firstData
  /\ runs' = runs + 1
  /\ pc' = "parse"
  /\ rawToken' = TokenAfter(rawToken, tokenData')
  /\ UNCHANGED <<procOptions, parseVars, firstMeta, filterVars, selectVars, pairVars, walletVars>>
RepeatNext == RunParse \/ RunProcess
RepeatSpec == RepeatInit /\ [][RepeatNext]_vars

\* two raw records that differ in their metadata object only, classified
\* one after the other with the same options
PairRaws ==
  {O(Id \o am \o nm \o im \o de) :
     am \in Absent \cup One("amount", {S("0"), S("1"), S("2")}),
     nm \in Names, im \in Images,
     de \in Absent \cup One("description", {S("plain")})}
PairMetadatas ==
  { O(<<M("name", Str(<<"M", " ", "#", "2">>)), M("image", S("https://img")),
        M("description", S("md")), M("collection", S("MC"))>>),
    O(<<M("tokenId", S("t1")), M("name", Str(<<"M", " ", "#", "2">>)),
        M("amount", S("1")), M("imageUrl", S("ipfs://cid"))>>),
    O(<<M("721", O(<<M("93", O(<<M("Cybercitizen", S("93")),
                                 M("image", S("https://img"))>>))>>))>>),
    O(<<M("attributes", Arr(<<Null>>))>>),
    O(<<>>) }
PairInit ==
  /\ pc = "first"
  /\ rawToken \in PairRaws
  /\ procOptions \in ProcOptions
  /\ tokenData = Undef
  /\ NoPair /\ NoRepeat /\ NoWallet /\ NoParse /\ NoFilter /\ NoSelect
ProcessFirst ==
  /\ pc = "first"
  /\ tokenData' = processTokenData(rawToken, procOptions)
  /\ pc' = "other"
  /\ UNCHANGED <<rawToken, procOptions, parseVars, filterVars, selectVars, repeatVars, pairVars, walletVars>>
ProcessOther ==
  /\ pc = "other"
  /\ \E md \in PairMetadatas :
       /\ otherToken' = Obj(ObjSet(rawToken.o, <<"metadata">>, md))
       /\ otherData' = processTokenData(otherToken', procOptions)
  /\ pc' = "done"
  /\ UNCHANGED <<processVars, parseVars, filterVars, selectVars, repeatVars, walletVars>>
PairNext == ProcessFirst \/ ProcessOther
PairSpec == PairInit /\ [][PairNext]_vars

\* ------------------------------------------------------------------------
\* context/WalletContext.tsx: the provider, the wallet extension and up to
\* MaxConnects calls of connectToWallet in flight
\* ------------------------------------------------------------------------
\* extConnected is what nautilus.isConnected() answers; connects[i].at is the
\* await at which call i of connectToWallet stands; connects[i].early tells
\* that a disconnectFromWallet completed after call i started;
\* afterDisconnect tells that disconnectFromWallet completed and no later
\* connectToWallet has connected since
otherVars ==
  <<inText, inOptions, meta, rawToken, procOptions, tokenData, tokenList, filterArg,
    filtered, call, result, runs, firstMeta, firstData, otherToken, otherData>>
WalletInit ==
  /\ pc = "wallet"
  /\ extConnected \in BOOLEAN
  /\ autoConnectEnabled \in BOOLEAN
  /\ walletData = defaultWalletData
  /\ connects = [i \in 1..MaxConnects |-> IdleConnect]
  /\ disconnectAt = "idle" /\ mounted = FALSE /\ afterDisconnect = FALSE
  /\ tokenData = Undef /\ rawToken = Undef /\ procOptions = Undef
  /\ NoParse /\ NoFilter /\ NoSelect /\ NoRepeat /\ NoPair
SomeIdle == \E i \in 1..MaxConnects : connects[i].at = "idle"
\* connectToWallet is called: line 58 awaits connectWallet()
Started ==
  LET i == CHOOSE j \in 1..MaxConnects : connects[j].at = "idle"
  IN [connects EXCEPT ![i] = [at |-> "connectWallet", early |-> FALSE]]
\* lines 161-186: the effect of the first render
Mount ==
  /\ ~mounted /\ mounted' = TRUE
  /\ connects' = IF extConnected \/ autoConnectEnabled THEN Started ELSE connects
  /\ UNCHANGED <<pc, extConnected, walletData, autoConnectEnabled, disconnectAt,
                 afterDisconnect, otherVars>>
\* a click on Connect (WalletConnector.tsx line 61)
UserConnect ==
  /\ mounted /\ SomeIdle
  /\ connects' = Started
  /\ UNCHANGED <<pc, extConnected, walletData, autoConnectEnabled, disconnectAt, mounted,
                 afterDisconnect, otherVars>>
\* lines 180-182 and 140-158: a tick of the interval
Tick ==
  /\ mounted
  /\ LET connected == extConnected
     IN IF connected # TimerIsConnected
        THEN IF connected
             THEN SomeIdle /\ connects' = Started /\ UNCHANGED walletData
             ELSE walletData' = defaultWalletData /\ UNCHANGED connects
        ELSE UNCHANGED <<walletData, connects>>
  /\ UNCHANGED <<pc, extConnected, autoConnectEnabled, disconnectAt, mounted,
                 afterDisconnect, otherVars>>
\* line 58 resumes: connectWallet() (ergo.ts lines 62-104) answers true when
\* the extension is connected or the user approves, false otherwise; then
\* lines 61-76 or 123-129
ConnectWalletReturns(i) ==
  /\ connects[i].at = "connectWallet"
  /\ \E approved \in BOOLEAN, hasContext \in BOOLEAN :
       LET connected == extConnected \/ approved
       IN /\ extConnected' = connected
          /\ IF connected
             THEN /\ autoConnectEnabled' = TRUE
                  /\ connects' = [connects EXCEPT ![i].at =
                                    IF hasContext THEN "get_utxos" ELSE "getContext"]
                  /\ afterDisconnect' = (afterDisconnect /\ connects[i].early)
                  /\ UNCHANGED walletData
             ELSE /\ walletData' = FailedWalletData("Connection failed")
                  /\ connects' = [connects EXCEPT ![i] = IdleConnect]
                  /\ UNCHANGED <<autoConnectEnabled, afterDisconnect>>
  /\ UNCHANGED <<pc, disconnectAt, mounted, otherVars>>
\* line 70 resumes: the context, or lines 72-75 and 130-136
GetContextReturns(i) ==
  /\ connects[i].at = "getContext"
  /\ \E ok \in BOOLEAN :
       IF ok
       THEN connects' = [connects EXCEPT ![i].at = "get_utxos"] /\ UNCHANGED walletData
       ELSE /\ walletData' = FailedWalletData("Error")
            /\ connects' = [connects EXCEPT ![i] = IdleConnect]
  /\ UNCHANGED <<pc, extConnected, autoConnectEnabled, disconnectAt, mounted,
                 afterDisconnect, otherVars>>
\* line 81 resumes: the wallet answers while it is connected, else lines
\* 115-122 and 130-136
GetUtxosReturns(i) ==
  /\ connects[i].at = "get_utxos"
  /\ \E ok \in BOOLEAN :
       IF ok /\ extConnected
       THEN connects' = [connects EXCEPT ![i].at = "getTokens"] /\ UNCHANGED walletData
       ELSE /\ walletData' = FailedWalletData("Error")
            /\ connects' = [connects EXCEPT ![i] = IdleConnect]
  /\ UNCHANGED <<pc, extConnected, autoConnectEnabled, disconnectAt, mounted,
                 afterDisconnect, otherVars>>
\* line 94 resumes: lines 99-112, or lines 115-122 and 130-136
GetTokensReturns(i) ==
  /\ connects[i].at = "getTokens"
  /\ \E ok \in BOOLEAN :
       walletData' = IF ok THEN ConnectedWalletData ELSE FailedWalletData("Error")
  /\ connects' = [connects EXCEPT ![i] = IdleConnect]
  /\ UNCHANGED <<pc, extConnected, autoConnectEnabled, disconnectAt, mounted,
                 afterDisconnect, otherVars>>
\* a click on Disconnect (WalletConnector.tsx line 232): line 190 awaits
UserDisconnect ==
  /\ mounted /\ disconnectAt = "idle"
  /\ disconnectAt' = "disconnectWallet"
  /\ UNCHANGED <<pc, extConnected, walletData, autoConnectEnabled, connects, mounted,
                 afterDisconnect, otherVars>>
\* line 190 resumes: disconnectWallet() (ergo.ts lines 107-116) swallows a
\* failure of the extension; then lines 192-193
DisconnectWalletReturns ==
  /\ disconnectAt = "disconnectWallet"
  /\ \E ok \in BOOLEAN : extConnected' = (extConnected /\ ~ok)
  /\ autoConnectEnabled' = FALSE
  /\ walletData' = defaultWalletData
  /\ disconnectAt' = "idle"
  /\ connects' = [i \in 1..MaxConnects |->
                    [connects[i] EXCEPT !.early = (connects[i].at # "idle")]]
  /\ afterDisconnect' = TRUE
  /\ UNCHANGED <<pc, mounted, otherVars>>
\* lines 49-52, from the switch of WalletConnector.tsx lines 64-94
SetAutoConnect(enabled) ==
  /\ mounted /\ autoConnectEnabled # enabled
  /\ autoConnectEnabled' = enabled
  /\ afterDisconnect' = FALSE
  /\ UNCHANGED <<pc, extConnected, walletData, connects, disconnectAt, mounted, otherVars>>
\* the user disconnects the site in the wallet extension
ExtensionDisconnects ==
  /\ extConnected /\ extConnected' = FALSE
  /\ UNCHANGED <<pc, walletData, autoConnectEnabled, connects, disconnectAt, mounted,
                 afterDisconnect, otherVars>>
Resumes ==
  \E i \in 1..MaxConnects :
    \/ ConnectWalletReturns(i) \/ GetContextReturns(i)
    \/ GetUtxosReturns(i) \/ GetTokensReturns(i)
WalletNext ==
  \/ Mount \/ UserConnect \/ Tick \/ Resumes
  \/ UserDisconnect \/ DisconnectWalletReturns
  \/ (\E enabled \in BOOLEAN : SetAutoConnect(enabled))
  \/ ExtensionDisconnects
WalletSpec == WalletInit /\ [][WalletNext]_vars
\* the timer fires again and again and every await of the provider resumes
WalletFairSpec ==
  WalletSpec /\ WF_vars(Mount) /\ WF_vars(Tick) /\ WF_vars(Resumes)
  /\ WF_vars(DisconnectWalletReturns)

\* ------------------------------------------------------------------------
\* Properties of parseMetadata (ParseSpec)
\* ------------------------------------------------------------------------
Returned == pc = "done"
\* the text is not blank
NonBlank(text) == Trim(text) # <<>>
\* the text opens like the structured-index dialect
Indexed(text) == StartsWith(Trim(text), Prefix721)
\* the members of the "721" envelope of a text, <<>> when it has none
IndexEntries(text) == Entries(G(JSONparse(Trim(text)), "721"))
IndexId(text) == IndexEntries(text)[1].k
UnderIndexId(text) == IndexEntries(text)[1].v
Unrecognized(text) == List("unknown", StrList(<<text>>))

\* C1: parseMetadata never throws: for every string input the call returns
\* a value, null or a metadata record, and no exception leaves it.
C1_ParseNeverThrows ==
  Returned => meta.t \in {"null", "TokenMetadata"}
\* a call in which the body raised and the catch answered
C1_Witness ==
  /\ Returned
  /\ TryParseMetadata(inText, inOptions).t = "throw"
  /\ meta = Unrecognized(inText)

\* C2: parseMetadata returns null only for blank input: every input with a
\* character that is not whitespace gives a metadata record, never null.
C2_NullOnlyForBlank ==
  (Returned /\ NonBlank(inText)) => meta.t = "TokenMetadata"

\* C3: a text whose trimmed form starts with { or [ and does not decode as
\* JSON, the structured-index prefix included, gives kind unknown with the
\* one-element list of the original, untrimmed text as payload.
C3_DecodeFailureUnrecognized ==
  (/\ Returned
   /\ StartsWith(Trim(inText), <<"{">>) \/ StartsWith(Trim(inText), <<"[">>)
   /\ JSONparse(Trim(inText)).t = "throw")
  => meta = Unrecognized(inText)

\* C4: for every structured-index input for which a record is returned, the
\* trait map has a "Token ID" and it is the index id, the first key under
\* the "721" envelope.
C4_TokenIdIsIndexId ==
  (Returned /\ Indexed(inText) /\ meta.t = "TokenMetadata")
  => /\ Truthy(meta.traits)
     /\ G(meta.traits, "Token ID") = Str(IndexId(inText))

\* the positions of the entries under the index id whose value is the
\* index id as a string
IdValued(text) ==
  IF UnderIndexId(text).t \in {"object", "array"}
  THEN {i \in 1..Len(Entries(UnderIndexId(text))) :
          Entries(UnderIndexId(text))[i].v = Str(IndexId(text))}
  ELSE {}
\* a structured-index text for which a record is returned and in which
\* some entry under the index id has the index id as its value
Rule1Case ==
  /\ Returned /\ Indexed(inText) /\ meta.t = "TokenMetadata"
  /\ IdValued(inText) # {}
\* C9: tie-break rule 1 comes first: whenever a record is returned for a
\* structured-index text in which some entry under the index id has the
\* index id as its string value, the collection is that entry's key (the
\* first such entry's) and the name is the index id, also when the object
\* has a name or a description; and the Cybercitizen text gives exactly
\* the traits Background: Blue and Token ID: 93.
C9_Rule1First ==
  /\ Rule1Case =>
       /\ meta.collection =
            Str(Entries(UnderIndexId(inText))
                  [CHOOSE i \in IdValued(inText) : \A j \in IdValued(inText) : i <= j].k)
       /\ meta.name = Str(IndexId(inText))
  /\ (Returned /\ inText = CybText) =>
       /\ meta.t = "TokenMetadata"
       /\ meta.collection = S("Cybercitizen") /\ meta.name = S("93")
       /\ meta.traits = O(<<M("Background", S("Blue")), M("Token ID", S("93"))>>)
\* rule 1 applied to an object that also carries a name
C9_Witness ==
  /\ Rule1Case
  /\ Truthy(G(UnderIndexId(inText), "name"))
  /\ meta.collection = S("Cybercitizen")
  /\ meta.name = S("93")

\* a field is absent, or holds something other than the empty string
AbsentOrNonEmpty(v) == v.t = "undefined" \/ v # EmptyStr
\* the text writes no empty string
NoEmptyLiteral(text) ==
  \A i \in 1..(Len(text) - 1) : ~(text[i] = Q /\ text[i + 1] = Q)
\* C10: every record returned for a text that writes no empty string has
\* its type set, and each of name, description, image, collection, creator
\* and traits is absent or non-empty.
C10_NoEmptyFields ==
  (Returned /\ meta.t = "TokenMetadata" /\ NoEmptyLiteral(inText))
  => /\ meta.type \in {"json", "list", "721", "ergo", "rosenBridge", "unknown"}
     /\ AbsentOrNonEmpty(meta.name) /\ AbsentOrNonEmpty(meta.description)
     /\ AbsentOrNonEmpty(meta.image) /\ AbsentOrNonEmpty(meta.collection)
     /\ AbsentOrNonEmpty(meta.creator)
     /\ meta.traits.t = "undefined" \/ Len(Entries(meta.traits)) > 0

\* ------------------------------------------------------------------------
\* Properties of processTokenData (ProcessSpec)
\* ------------------------------------------------------------------------
Classified == pc = "done" /\ tokenData.t = "TokenData"
\* the raw quantity as text, <<>> when the record has none
Quantity ==
  LET q == G(rawToken, "amount")
  IN IF q.t \in {"string", "number"} THEN ToStr(q) ELSE <<>>
HasImage == Truthy(G(rawToken, "imageUrl")) \/ Truthy(G(rawToken, "image"))
HasDescription ==
  IsStr(G(rawToken, "description")) /\ G(rawToken, "description").s # <<>>
NameHasHash == IsStr(G(rawToken, "name")) /\ Includes(G(rawToken, "name").s, "#")
\* C5: in every classified token, the type is nft iff the raw quantity is
\* exactly 1 and the raw record has an image, a non-empty description or a
\* name with #; otherwise it is fungible iff the quantity parses to an
\* integer above 1; otherwise it is unknown.
C5_Classification ==
  Classified =>
    tokenData.tokenType =
      IF Quantity = <<"1">> /\ (HasImage \/ HasDescription \/ NameHasHash) THEN "nft"
      ELSE IF ParseInt(Str(Quantity)) > 1 THEN "fungible"
      ELSE "unknown"
\* quantity 1 and nothing that suggests an NFT: unknown
C5_Witness ==
  /\ Classified
  /\ G(rawToken, "amount") = S("1")
  /\ ~HasImage /\ ~HasDescription /\ ~NameHasHash
  /\ G(rawToken, "metadata").t = "object"
  /\ tokenData.tokenType = "unknown"

\* the name of the raw record is a string or absent, and its attributes a
\* list or absent
TypedFields ==
  /\ G(rawToken, "name").t \in {"string", "undefined"}
  /\ G(rawToken, "attributes").t \in {"array", "undefined"}
\* C7: processTokenData never throws: every raw record, whatever its
\* metadata, description and attribute entries, gives a classified token.
C7_ProcessNeverThrows ==
  (pc = "done" /\ TypedFields) => tokenData.t = "TokenData"

\* the raw attributes and the traits of the metadata of the classified token
RawAttributes == CloneAttributes(rawToken).a
MetaTraits ==
  IF tokenData.metadata.t = "TokenMetadata" /\ Truthy(tokenData.metadata.traits)
  THEN Entries(tokenData.metadata.traits) ELSE <<>>
Out == tokenData.attributes.a
LowerName(attr) == ToLowerCase(G(attr, "trait_type").s)
\* C8, as claimed: no two entries of the attribute list of a classified
\* token have names that are equal case-insensitively.
C8_NoTwoAlike ==
  Classified =>
    \A i, j \in 1..Len(Out) :
      (i # j /\ IsStr(G(Out[i], "trait_type")) /\ IsStr(G(Out[j], "trait_type")))
      => LowerName(Out[i]) # LowerName(Out[j])
\* C8, amended: the attribute list is the raw attributes unchanged,
\* followed by the metadata traits whose name is, case-insensitively, not
\* the name of an earlier entry; each added entry is the first metadata
\* trait of that name, and every metadata trait name is in the list.
C8_MergeKeepsFirst ==
  Classified =>
    /\ Len(Out) >= Len(RawAttributes)
    /\ SubSeq(Out, 1, Len(RawAttributes)) = RawAttributes
    /\ \A i \in (Len(RawAttributes) + 1)..Len(Out) :
         /\ \A j \in 1..(i - 1) : LowerName(Out[i]) # LowerName(Out[j])
         /\ \E k \in 1..Len(MetaTraits) :
              /\ Out[i] = O(<<M("trait_type", Str(MetaTraits[k].k)),
                              M("value", Str(ToStr(MetaTraits[k].v)))>>)
              /\ \A h \in 1..(k - 1) :
                   ToLowerCase(MetaTraits[h].k) # ToLowerCase(MetaTraits[k].k)
    /\ \A k \in 1..Len(MetaTraits) :
         \E j \in 1..Len(Out) : LowerName(Out[j]) = ToLowerCase(MetaTraits[k].k)
\* a raw attribute and a metadata trait that differ only in casing, merged
\* with another trait added
C8_Witness ==
  /\ Classified
  /\ Len(Out) > Len(RawAttributes)
  /\ \E i \in 1..Len(RawAttributes) : \E k \in 1..Len(MetaTraits) :
       /\ G(RawAttributes[i], "trait_type").s # MetaTraits[k].k
       /\ LowerName(RawAttributes[i]) = ToLowerCase(MetaTraits[k].k)

\* ------------------------------------------------------------------------
\* Properties of advancedFilter (FilterSpec)
\* ------------------------------------------------------------------------
Ids(tokens) == {tokens[i].tokenId : i \in 1..Len(tokens)}
Named(arr) == Truthy(arr) /\ Len(arr.a) > 0
\* C6: advancedFilter returns exactly the tokens that are in the result of
\* each single filter the filter object names: filterByCollection for some
\* member of collections, filterByAuthor for some member of authors,
\* filterByContract for some member of contracts, filterByName for the
\* search term and filterByTraits for the traits.
C6_CompositeIsIntersection ==
  pc = "done" =>
    Ids(filtered) =
      {id \in Ids(tokenList) :
         /\ Named(filterArg.collections) =>
              \E i \in 1..Len(filterArg.collections.a) :
                id \in Ids(filterByCollection(tokenList, filterArg.collections.a[i].s))
         /\ Named(filterArg.authors) =>
              \E i \in 1..Len(filterArg.authors.a) :
                id \in Ids(filterByAuthor(tokenList, filterArg.authors.a[i].s))
         /\ Named(filterArg.contracts) =>
              \E i \in 1..Len(filterArg.contracts.a) :
                id \in Ids(filterByContract(tokenList, filterArg.contracts.a[i].s))
         /\ Truthy(filterArg.searchTerm) =>
              id \in Ids(filterByName(tokenList, filterArg.searchTerm.s))
         /\ (Truthy(filterArg.traits) /\ Len(filterArg.traits.o) > 0) =>
              id \in Ids(filterByTraits(tokenList, filterArg.traits.o))}

\* ------------------------------------------------------------------------
\* Properties of the single filters and of groupByCollection (SelectSpec)
\* ------------------------------------------------------------------------
Answered(op) == pc = "done" /\ call.op = op
\* the attribute list and the metadata trait map of a classified token
AttributesOf(token) ==
  IF IsNullish(token.attributes) THEN <<>> ELSE token.attributes.a
TraitMapOf(token) ==
  IF Truthy(MetaField(token, "traits")) THEN Entries(MetaField(token, "traits")) ELSE <<>>
\* the pair name: value matches the token: an attribute has that name and
\* value or the trait map has that name with that value, case-insensitively
PairMatches(token, name, value) ==
  \/ \E i \in 1..Len(AttributesOf(token)) :
       /\ ToLowerCase(G(AttributesOf(token)[i], "trait_type").s) = ToLowerCase(name)
       /\ ToLowerCase(G(AttributesOf(token)[i], "value").s) = ToLowerCase(value)
  \/ \E i \in 1..Len(TraitMapOf(token)) :
       /\ ToLowerCase(TraitMapOf(token)[i].k) = ToLowerCase(name)
       /\ ToLowerCase(ToStr(TraitMapOf(token)[i].v)) = ToLowerCase(value)
\* C11: filterByTraits returns exactly the tokens for which every requested
\* pair matches, so that an empty request removes no token and a token with
\* neither attributes nor metadata traits is removed only by a non-empty
\* request.
C11_EveryPairMatches ==
  Answered("filterByTraits") =>
    result = SelectSeq(tokenList, LAMBDA token :
               \A i \in 1..Len(call.arg.o) :
                 PairMatches(token, call.arg.o[i].k, call.arg.o[i].v.s))

\* the contract reference of a classified token, Undef when it has none
ContractOf(token) == RawField(token, "contractAddress")
\* C12: filterByContract returns exactly the tokens that have a contract
\* reference equal to the requested one, compared case-insensitively.
C12_ContractIgnoringCase ==
  Answered("filterByContract") =>
    result = SelectSeq(tokenList, LAMBDA token :
               /\ IsStr(ContractOf(token))
               /\ ToLowerCase(ContractOf(token).s) = ToLowerCase(call.arg.s))

\* the creator resolved for a classified token: the one of the metadata
\* when present, otherwise the one of the raw record
CreatorOf(token) == Or(MetaField(token, "creator"), RawField(token, "creator"))
\* C13: filterByAuthor returns exactly the tokens whose resolved creator
\* equals the requested author, compared case-insensitively; a token with
\* no creator is left out.
C13_ResolvedCreator ==
  Answered("filterByAuthor") =>
    result = SelectSeq(tokenList, LAMBDA token :
               /\ IsStr(CreatorOf(token)) /\ CreatorOf(token).s # <<>>
               /\ ToLowerCase(CreatorOf(token).s) = ToLowerCase(call.arg.s))

\* the name of the bucket of a classified token
BucketOf(token) ==
  IF Truthy(token.collection) THEN token.collection.s ELSE <<"Uncategorized">>
\* the bucket names of a token list in the order of their first occurrence
FirstOccurrences(tokens) ==
  LET first == {i \in 1..Len(tokens) :
                  \A j \in 1..(i - 1) : BucketOf(tokens[j]) # BucketOf(tokens[i])}
  IN [n \in 1..Cardinality(first) |->
        BucketOf(tokens[CHOOSE i \in first : Cardinality({j \in first : j <= i}) = n])]
\* C14: groupByCollection partitions its input: each bucket holds, in input
\* order, the tokens of its collection (Uncategorized when the collection
\* is absent or empty), and the buckets come in the order in which their
\* collection first occurs in the input.
C14_GroupsInFirstOccurrenceOrder ==
  Answered("groupByCollection") =>
    /\ [n \in 1..Len(result) |-> result[n].k] = FirstOccurrences(tokenList)
    /\ \A n \in 1..Len(result) :
         result[n].v = SelectSeq(tokenList, LAMBDA token : BucketOf(token) = result[n].k)
\* C14, the part that holds: the buckets partition the input and keep the
\* input order, whatever the order of the buckets
C14_BucketsPartition ==
  Answered("groupByCollection") =>
    /\ {result[n].k : n \in 1..Len(result)}
         = {BucketOf(tokenList[i]) : i \in 1..Len(tokenList)}
    /\ \A n \in 1..Len(result) :
         result[n].v = SelectSeq(tokenList, LAMBDA token : BucketOf(token) = result[n].k)

\* ------------------------------------------------------------------------
\* Properties of the dialects of parseMetadata (ParseSpec)
\* ------------------------------------------------------------------------
\* what the trimmed text decodes to, Throw when it does not decode
Decoded == JSONparse(Trim(inText))
HasNativeId == Truthy(G(Decoded, "tokenId")) \/ Truthy(G(Decoded, "assetId"))
HasTriad ==
  /\ Truthy(G(Decoded, "title")) /\ Truthy(G(Decoded, "originNetwork"))
  /\ Truthy(G(Decoded, "originToken"))
\* a call on a text that decodes to an object with the triad and no native id
BridgeCase ==
  /\ Returned /\ ~Indexed(inText)
  /\ Decoded.t = "object" /\ HasTriad /\ ~HasNativeId
TriadKeys == {<<"title">>, <<"originNetwork">>, <<"originToken">>, <<"isNativeToken">>}
FixedTraits == {<<"Origin Network">>, <<"Origin Token">>, <<"Is Native Token">>}
\* d carries a truthy tokenId or assetId
NativeIdIn(d) == Truthy(G(d, "tokenId")) \/ Truthy(G(d, "assetId"))
\* d carries truthy title, originNetwork and originToken
TriadIn(d) ==
  Truthy(G(d, "title")) /\ Truthy(G(d, "originNetwork")) /\ Truthy(G(d, "originToken"))
\* the record is the bridge-wrapped record of the decoded object d
BridgeRecordOf(d) ==
  /\ meta.t = "TokenMetadata" /\ meta.type = "rosenBridge"
  /\ meta.collection = S("Rosen Bridge Wrapped Tokens")
  /\ meta.description =
       Str(ToStr(G(d, "title")) \o <<" - Wrapped from ">> \o ToStr(G(d, "originNetwork")))
  /\ G(meta.traits, "Origin Network") = G(d, "originNetwork")
  /\ G(meta.traits, "Origin Token") = G(d, "originToken")
  /\ G(meta.traits, "Is Native Token") =
       (IF ~HasKey(d.o, <<"isNativeToken">>) THEN Undef
        ELSE IF Truthy(G(d, "isNativeToken")) THEN S("Yes") ELSE S("No"))
  /\ \A i \in 1..Len(d.o) :
       d.o[i].k \notin TriadKeys => Get(meta.traits, d.o[i].k) = Str(ToStr(d.o[i].v))
  /\ \A i \in 1..Len(meta.traits.o) :
       \/ meta.traits.o[i].k \in FixedTraits
       \/ meta.traits.o[i].k \notin TriadKeys /\ HasKey(d.o, meta.traits.o[i].k)
NewlineCase ==
  /\ Returned /\ Includes(inText, "\n")
  /\ ~StartsWith(Trim(inText), <<"{">>) /\ ~StartsWith(Trim(inText), <<"[">>)
\* the lines of a text, each trimmed, without the blank ones
TrimmedLines(text) ==
  SelectSeq([i \in 1..Len(Split(text, "\n")) |-> Trim(Split(text, "\n")[i])],
            LAMBDA l : l # <<>>)
\* C16: for every text with a newline that does not start, trimmed, with {
\* or [, the record is of type list and its data are the lines of the text,
\* trimmed, in order, without the blank ones: no entry is blank or has
\* whitespace at either end.
C16_NewlineText ==
  NewlineCase =>
    /\ meta.t = "TokenMetadata" /\ meta.type = "list"
    /\ meta.data = StrList(TrimmedLines(inText))
    /\ \A i \in 1..Len(meta.data.a) :
         meta.data.a[i].s # <<>> /\ Trim(meta.data.a[i].s) = meta.data.a[i].s
\* C16 for the texts that have a line that is not blank
C16_NonBlankNewlineText ==
  (NewlineCase /\ NonBlank(inText)) =>
    /\ meta.t = "TokenMetadata" /\ meta.type = "list"
    /\ meta.data = StrList(TrimmedLines(inText))

\* ------------------------------------------------------------------------
\* Properties of repeated runs (RepeatSpec)
\* ------------------------------------------------------------------------
PlaceholderUsed ==
  /\ tokenData.t = "TokenData" /\ IsStr(tokenData.imageUrl)
  /\ StartsWith(tokenData.imageUrl.s, <<"https://via.placeholder.com/400/">>)
DecodedCase ==
  /\ Returned /\ ~Indexed(inText)
  /\ Decoded.t \in {"array", "object"}
\* the kind the order list, native id, triad, generic gives
FirstKind ==
  IF Decoded.t = "array" THEN "list"
  ELSE IF HasNativeId THEN "ergo"
  ELSE IF HasTriad THEN "rosenBridge"
  ELSE "json"
\* C18: for every text that decodes as JSON and does not open with the
\* structured-index prefix, the record's kind is the first that applies of
\* list (every element stringified), native-token, bridge-wrapped, generic.
C18_FirstKindChosen ==
  DecodedCase =>
    /\ meta.t = "TokenMetadata" /\ meta.type = FirstKind
    /\ Decoded.t = "array" =>
         meta.data = Arr([i \in 1..Len(Decoded.a) |-> Str(ToStr(Decoded.a[i]))])

\* ------------------------------------------------------------------------
\* Structured-index rule 3 (ParseSpec)
\* ------------------------------------------------------------------------
\* a call on a structured-index text whose object under the index id has
\* one key, no entry valued with the index id, and no name or description
Rule3Case ==
  /\ Returned /\ Indexed(inText)
  /\ IndexEntries(inText) # <<>> /\ IndexId(inText) # <<>>
  /\ UnderIndexId(inText).t = "object"
  /\ IdValued(inText) = {}
  /\ ~Truthy(G(UnderIndexId(inText), "name"))
  /\ ~Truthy(G(UnderIndexId(inText), "description"))
  /\ Len(Entries(UnderIndexId(inText))) = 1
NestedId == Entries(UnderIndexId(inText))[1].k
Payload == Entries(UnderIndexId(inText))[1].v
\* the positions of the payload's entries whose value is a string other
\* than the token id
StringFields ==
  IF Payload.t \in {"object", "array"}
  THEN {i \in 1..Len(Entries(Payload)) :
          IsStr(Entries(Payload)[i].v) /\ Entries(Payload)[i].v.s # NestedId}
  ELSE {}
\* C19: under rule 3 the record's name is the one key of the object under
\* the index id, and its collection is the first string-valued field of the
\* payload whose value differs from that key, or the index id when there is
\* none, also when the payload is not an object.
C19_Rule3 ==
  Rule3Case =>
    /\ meta.t = "TokenMetadata"
    /\ meta.name = Str(NestedId)
    /\ meta.collection =
         IF StringFields = {} THEN Str(IndexId(inText))
         ELSE Str(Entries(Payload)[CHOOSE i \in StringFields :
                                     \A j \in StringFields : i <= j].k)

\* ------------------------------------------------------------------------
\* Field precedence (ProcessSpec)
\* ------------------------------------------------------------------------
MetadataObject == G(rawToken, "metadata")
\* a classified record whose metadata is an object of the generic or the
\* native-token dialect
PlainMetadataCase ==
  /\ Classified
  /\ MetadataObject.t = "object"
  /\ ~Truthy(G(MetadataObject, "721"))
  /\ ~(/\ Truthy(G(MetadataObject, "title")) /\ Truthy(G(MetadataObject, "originNetwork"))
       /\ Truthy(G(MetadataObject, "originToken")))
\* the metadata's value of a field when it supplies one, else the raw
\* record's, else the default of tokenProcessing.ts lines 73-75
Preferred(field, default) ==
  Or(G(MetadataObject, field), Or(G(rawToken, field), default))
\* C20: name, description and collection of the classified token are the
\* metadata's value when the metadata supplies one and the raw record's
\* otherwise; a metadata object without a name leaves the raw name.
C20_MetadataOverRaw ==
  PlainMetadataCase =>
    /\ tokenData.name = Preferred("name", S("Unknown Token"))
    /\ ~isUrl(Preferred("description", EmptyStr)) =>
         tokenData.description = Preferred("description", EmptyStr)
    /\ Truthy(Preferred("collection", EmptyStr)) =>
         tokenData.collection = Preferred("collection", EmptyStr)

\* ------------------------------------------------------------------------
\* Option flags and fallback chains of processTokenData (ProcessSpec)
\* ------------------------------------------------------------------------
ParsedOf == tokenData.metadata
HasParsed == ParsedOf.t = "TokenMetadata"
\* the description before a URL description is adopted as the image
DescriptionBefore ==
  IF HasParsed /\ Truthy(ParsedOf.description) THEN ParsedOf.description
  ELSE Or(G(rawToken, "description"), EmptyStr)
MetadataImageValid == HasParsed /\ Truthy(ParsedOf.image) /\ isUrl(ParsedOf.image)
\* a classified record for which metadata, raw record and description give
\* no image
NoImageFound ==
  /\ Classified /\ ~HasImage /\ ~MetadataImageValid /\ ~isUrl(DescriptionBefore)
\* C21: when no image is found, the image is the placeholder made of token
\* id and resolved name if placeholder generation is enabled, and empty if
\* the caller passed generatePlaceholderImage = false.
C21_PlaceholderFlagHonoured ==
  NoImageFound =>
    tokenData.imageUrl =
      IF procOptions.generatePlaceholderImage
      THEN generatePlaceholderImage(tokenData.tokenId, tokenData.name)
      ELSE EmptyStr

\* the collection the chain metadata, raw record, name prefix gives
ChainCollection ==
  IF HasParsed /\ Truthy(ParsedOf.collection) THEN ParsedOf.collection
  ELSE IF Truthy(G(rawToken, "collection")) THEN G(rawToken, "collection")
  ELSE IF procOptions.detectCollections /\ Includes(tokenData.name.s, "#")
  THEN Str(Trim(SplitFirst(tokenData.name.s, "#")))
  ELSE EmptyStr
\* C22: the resolved collection is the metadata's collection, else the raw
\* record's, else, only with collection detection enabled and a '#' in the
\* resolved name, the trimmed part of the name before the first '#'; with
\* detection disabled and no collection given it stays empty.
C22_CollectionFallback ==
  (Classified /\ IsStr(tokenData.name)) => tokenData.collection = ChainCollection

\* the texts of the modelled records that the URL constructor accepts
KnownUrls == {S("https://img"), S("ipfs://cid")}
RawImage == Or(G(rawToken, "imageUrl"), G(rawToken, "image"))
MetadataImageIsUrl == HasParsed /\ ParsedOf.image \in KnownUrls
\* the description is taken as the image
Adopted ==
  /\ ~MetadataImageIsUrl /\ ~Truthy(RawImage) /\ DescriptionBefore \in KnownUrls
\* C23: the resolved image is the metadata image if that is a valid URL,
\* else the raw image, else a description that is a URL; a metadata image
\* that is no URL never replaces a raw image, and the description is
\* emptied exactly when it was taken as the image.
C23_ImageChain ==
  Classified =>
    /\ MetadataImageIsUrl => tokenData.imageUrl = ParsedOf.image
    /\ (~MetadataImageIsUrl /\ Truthy(RawImage)) => tokenData.imageUrl = RawImage
    /\ Adopted => tokenData.imageUrl = DescriptionBefore
    /\ tokenData.description = IF Adopted THEN EmptyStr ELSE DescriptionBefore
\* a raw image kept although the metadata carries an image that is no URL
C23_Witness ==
  /\ Classified /\ HasParsed
  /\ ParsedOf.image = S("pic") /\ Truthy(RawImage)
  /\ tokenData.imageUrl = RawImage

\* ------------------------------------------------------------------------
\* Metadata source priority (ProcessSpec)
\* ------------------------------------------------------------------------
HasMetadataObject ==
  Truthy(G(rawToken, "metadata")) /\ TypeofObject(G(rawToken, "metadata"))
\* what the metadata object alone parses to, Null without one
FromObject ==
  IF HasMetadataObject
  THEN parseMetadata(JSONstringify(G(rawToken, "metadata")), procOptions.metadataOptions)
  ELSE Null
\* what the description alone parses to, Null without one
FromDescription ==
  IF Truthy(G(rawToken, "description"))
  THEN ParseAny(G(rawToken, "description"), procOptions.metadataOptions)
  ELSE Null
\* C24: the metadata object is parsed first and the description only when
\* there is no metadata object or its parse gave nothing; the parsed
\* metadata is that of exactly one source, and the traits appended to the
\* attributes are those of that source alone.
C24_OneSourceObjectFirst ==
  Classified =>
    /\ FromObject.t = "TokenMetadata" => ParsedOf = FromObject
    /\ (FromObject.t = "null" /\ FromDescription.t = "TokenMetadata") =>
         ParsedOf = FromDescription
    /\ (FromObject.t = "null" /\ FromDescription.t = "null") => ParsedOf = Undef
    /\ tokenData.attributes = MergedAttributes(CloneAttributes(rawToken).a, ParsedOf)
\* a record whose metadata object and description both parse, to different
\* records with traits, classified with the object's
C24_Witness ==
  /\ Classified
  /\ FromObject.t = "TokenMetadata" /\ FromDescription.t = "TokenMetadata"
  /\ Truthy(FromObject.traits) /\ Truthy(FromDescription.traits)
  /\ FromObject # FromDescription
  /\ ParsedOf = FromObject

\* ------------------------------------------------------------------------
\* Classification of two records (PairSpec)
\* ------------------------------------------------------------------------
BothClassified ==
  pc = "done" /\ tokenData.t = "TokenData" /\ otherData.t = "TokenData"
\* C25: two raw records that agree on quantity, image, description and
\* name get the same category whatever their metadata objects contain.
C25_ClassificationIgnoresMetadata ==
  BothClassified => otherData.tokenType = tokenData.tokenType
\* a record of quantity 1 without image, description or '#' in its name,
\* and the same record with metadata that supplies an image and a name
\* with '#': both unknown
C25_Witness ==
  /\ BothClassified
  /\ G(rawToken, "amount") = S("1")
  /\ tokenData.tokenType = "unknown" /\ otherData.tokenType = "unknown"
  /\ otherData.imageUrl = S("https://img")
  /\ Includes(otherData.name.s, "#") /\ ~Includes(tokenData.name.s, "#")

C27_IdAndQuantityFromRaw ==
  Classified =>
    /\ tokenData.tokenId = Or(G(rawToken, "tokenId"), Or(G(rawToken, "id"), EmptyStr))
    /\ tokenData.amount = G(rawToken, "amount")
\* a record whose native-token metadata carries another id and quantity
C27_Witness ==
  /\ Classified /\ HasParsed /\ ParsedOf.type = "ergo"
  /\ G(ParsedOf.data, "tokenId") = S("t1") /\ G(ParsedOf.data, "amount") = S("5")
  /\ tokenData.tokenId = G(rawToken, "tokenId") /\ tokenData.tokenId # S("t1")
  /\ tokenData.amount = S("1")

\* ------------------------------------------------------------------------
\* Trait extraction of the generic dialect (ParseSpec)
\* ------------------------------------------------------------------------
\* d is a decoded object without native id and triad, and the call
\* answered with a generic record: extractTraits returned
GenericObject(d) ==
  /\ d.t = "object" /\ ~NativeIdIn(d) /\ ~TriadIn(d)
  /\ meta.t = "TokenMetadata" /\ meta.type = "json"
\* the entries of the explicit trait map of d
MapTraits(d) ==
  IF Truthy(G(d, "traits")) /\ TypeofObject(G(d, "traits"))
  THEN Entries(G(d, "traits")) ELSE <<>>
\* the attribute entries of d with a name and a defined value
NamedAttributes(d) ==
  IF G(d, "attributes").t = "array"
  THEN SelectSeq(G(d, "attributes").a,
         LAMBDA a : Truthy(G(a, "trait_type")) /\ G(a, "value").t # "undefined")
  ELSE <<>>
\* the entries of the properties bag of d that are scalars or {value}
\* wrappers, none with the flag disabled
BagTraits(d) ==
  IF inOptions.extractTraits /\ Truthy(G(d, "properties")) /\ TypeofObject(G(d, "properties"))
  THEN SelectSeq(Entries(G(d, "properties")),
         LAMBDA e : \/ e.v.t \in {"string", "number", "boolean"}
                    \/ e.v.t = "object" /\ G(e.v, "value").t # "undefined")
  ELSE <<>>
BagValue(e) == IF e.v.t = "object" THEN G(e.v, "value") ELSE e.v
\* the value trait k must have: the bag's, else the last attribute's of
\* that name, else the map's
ExpectedTrait(k, map, attrs, bag) ==
  LET inBag == {i \in 1..Len(bag) : bag[i].k = k}
      inAttrs == {i \in 1..Len(attrs) : ToStr(G(attrs[i], "trait_type")) = k}
  IN IF inBag # {} THEN Str(ToStr(BagValue(bag[CHOOSE i \in inBag : TRUE])))
     ELSE IF inAttrs # {}
     THEN Str(ToStr(G(attrs[CHOOSE i \in inAttrs : \A j \in inAttrs : j <= i], "value")))
     ELSE Str(ToStr(map[CHOOSE i \in 1..Len(map) : map[i].k = k].v))
ExpectedTraits(map, attrs, bag) ==
  LET keys == {map[i].k : i \in 1..Len(map)}
                \cup {ToStr(G(attrs[i], "trait_type")) : i \in 1..Len(attrs)}
                \cup {bag[i].k : i \in 1..Len(bag)}
  IN IF keys = {} THEN meta.traits = Undef
     ELSE /\ meta.traits.t = "object"
          /\ {meta.traits.o[i].k : i \in 1..Len(meta.traits.o)} = keys
          /\ \A k \in keys : Get(meta.traits, k) = ExpectedTrait(k, map, attrs, bag)
GenericCase == DecodedCase /\ GenericObject(Decoded)
\* C28: the traits of a generic record are the explicit trait map's entries
\* and the attribute entries with a name and a defined value, whatever the
\* flag, and the properties bag's scalar or {value} entries only with the
\* flag enabled, all values stringified; they are undefined exactly when
\* there is none.
C28_TraitExtractorFlagScope ==
  (Returned /\ ~Indexed(inText)) =>
    Bind(Decoded, LAMBDA d :
      GenericObject(d) =>
        Bind(MapTraits(d), LAMBDA map :
        Bind(NamedAttributes(d), LAMBDA attrs :
        Bind(BagTraits(d), LAMBDA bag : ExpectedTraits(map, attrs, bag)))))
\* a call with the flag disabled on an object with a trait map and a
\* properties bag: the map's traits and none of the bag's
C28_Witness ==
  /\ GenericCase /\ ~inOptions.extractTraits
  /\ MapTraits(Decoded) # <<>> /\ Truthy(G(Decoded, "properties"))
  /\ meta.traits.t = "object"
  /\ G(meta.traits, "Background") = S("Blue")
  /\ G(meta.traits, "Size") = Undef

\* ------------------------------------------------------------------------
\* Properties of the wallet provider (WalletSpec, WalletFairSpec)
\* ------------------------------------------------------------------------
InFlight == \E i \in 1..MaxConnects : connects[i].at # "idle"
\* C29: a tick changes the provider exactly when the extension's status
\* differs from walletData.isConnected (a connected wallet is not loaded
\* again by a tick), and after the extension disconnects
\* walletData.isConnected eventually becomes false.
C29_PeriodicSync ==
  /\ [][(Tick /\ extConnected = walletData.isConnected)
          => UNCHANGED <<walletData, connects>>]_vars
  /\ (~extConnected /\ ~InFlight) ~> (~walletData.isConnected \/ extConnected \/ InFlight)
\* C30: once disconnectFromWallet has completed, walletData.isConnected is
\* false and auto-connect is disabled until a connectToWallet that started
\* after it connects (or the user switches auto-connect).
C30_DisconnectWins ==
  afterDisconnect => (~walletData.isConnected /\ ~autoConnectEnabled)

====
